---- MODULE Spec2Model ----
(***************************************************************************)
(* Block-wise local-extrema aggregation of afm_tda_tools                    *)
(* (MinMaxAnalyzer.analyze / MinMaxAnalyzer._process_minmax) together with  *)
(* the shared AnalysisData container and the files it reads and writes.     *)
(*                                                                         *)
(* Data frames are records [columns, rows]: columns is the sequence of the  *)
(* column labels, rows the sequence of the rows (each a sequence of cells). *)
(* The integer column labels pandas gives to unnamed columns (0, 1, ...)    *)
(* are written as the strings "0", "1", ...                                 *)
(* numpy arrays are records [shape, rows] with shape = <<nrows, ncols>>.    *)
(* A path is a record [dir, name].                                          *)
(***************************************************************************)
EXTENDS Integers, Sequences, FiniteSets, TLC

VARIABLES
    disk,          \* the file system: path -> table stored in that CSV file
    minmax_data,   \* AnalysisData.minmax_data: file path -> aggregated table
    datasets,      \* the list given to MinMaxAnalyzer.analyze
    matrix_size,   \* the block size given to MinMaxAnalyzer.analyze
    idx,           \* position of the for loop of analyze in datasets
    exception,     \* the exception that left analyze, NoException if none
    returned,      \* TRUE once analyze has returned
    file_path,     \* argument of the latest _process_minmax call
    rows_to_drop,  \* locals of the latest _process_minmax call ...
    mat,
    mat_list,
    sub_mat_df,
    points,
    agg_points,
    history,       \* log of the _process_minmax calls: input and outcome
    persistence_diagrams,  \* AnalysisData.persistence_diagrams
    acf_data,      \* AnalysisData.acf_data
    calls,         \* log of the add_* calls made on the container
    pc,            \* position of the call under way outside MinMaxAnalyzer
    tree,          \* the files below the walked directories, as paths
    path_to_data,  \* argument of Analyzer.get_files
    exclude_patterns,  \* argument of Analyzer.get_files: [none, list]
    files_list,    \* the list Analyzer.get_files returns
    dataset,       \* the raw text files given to the converter, in order
    dirs,          \* the directories that exist
    error,         \* the exception that left the converter or a pipeline
                   \* step other than the min-max one, if any
    args,          \* the parsed command line of main
    trace,         \* the steps of AnalysisPipeline.run started so far
    stdout,        \* the messages printed by AnalysisPipeline.run
    bottleneck_results,  \* BottleneckAnalyzer.bottleneck_results: row names
    legacy,        \* outcome of the legacy minmax_db call, if one was made
    diags,         \* the diagrams BottleneckAnalyzer.analyze collected
    calc_only,     \* the paths given to _calc_only_persistence, in order
    persistence_analyzer,  \* TRUE iff analyze was given a persistence analyzer
    run_no         \* number of the run of main on the save directory

vars == <<disk, minmax_data, datasets, matrix_size, idx, exception, returned,
          file_path, rows_to_drop, mat, mat_list, sub_mat_df, points,
          agg_points, history, persistence_diagrams, acf_data, calls,
          pc, tree, path_to_data, exclude_patterns, files_list,
          dataset, dirs, error, args, trace, stdout, bottleneck_results,
          legacy, diags, calc_only, persistence_analyzer, run_no>>

\* the state of analyze and of its latest _process_minmax call
minmaxVars == <<datasets, matrix_size, idx, exception, returned, file_path,
                rows_to_drop, mat, mat_list, sub_mat_df, points, agg_points,
                history>>

\* the two other dictionaries of the container and the log of the adds
dataVars == <<persistence_diagrams, acf_data, calls>>

\* what analyze of MinMaxAnalyzer leaves alone
\* the state of a get_files call
filesVars == <<tree, path_to_data, exclude_patterns, files_list>>

\* the state of a conversion of raw text files
convertVars == <<dataset, dirs, error>>

\* the state of main and of AnalysisPipeline.run
pipelineVars == <<args, trace, stdout, bottleneck_results>>

\* the legacy call, the diagram collection and the run counter
extraVars == <<legacy, diags, calc_only, persistence_analyzer, run_no>>

restVars == <<dataVars, pc, filesVars, convertVars, pipelineVars, extraVars>>

(***************************************************************************)
(* Bounds of the model                                                     *)
(***************************************************************************)
MaxSide == 7      \* largest number of rows / of data columns of an input
MaxN == 3         \* largest block size
MaxCoef == 2      \* largest coefficient of the generated input values
MaxMod == 4       \* largest modulus of the generated input values
BatchSide == 2    \* largest side of the inputs of a multi-file batch
MaxAdds == 3      \* largest number of add_* calls on one container
MaxFiles == 3     \* largest number of files of a walked tree
MaxRawSide == 2   \* largest number of rows / of values per row of a raw file

(***************************************************************************)
(* Helpers                                                                 *)
(***************************************************************************)
Max2(a, b) == IF a >= b THEN a ELSE b

Min2(a, b) == IF a <= b THEN a ELSE b

Range(s) == {s[k] : k \in DOMAIN s}

NoException == "NoException"

ErrNegative == "ValueError: Number of rows to drop cannot be negative."

ErrMain == "ValueError: Check the dimension of main square matrix."

ErrSmaller == "ValueError: Check the dimension of smaller square matrix."

ErrKey == "KeyError: 'min_r'"

NoPath == [dir |-> "", name |-> ""]

EmptyFrame == [columns |-> <<>>, rows |-> <<>>]

EmptyArray == [shape |-> <<0, 0>>, rows |-> <<>>]

(***************************************************************************)
(* Python / numpy / pandas primitives used by the code                     *)
(***************************************************************************)
\* s[start:stop] of Python for start >= 0; a negative stop counts from the end
PySlice(s, start, stop) ==
    LET e == IF stop < 0 THEN Max2(Len(s) + stop, 0) ELSE Min2(stop, Len(s))
    IN  IF start >= e THEN <<>> ELSE SubSeq(s, start + 1, e)

\* os.path.dirname and os.path.join on [dir, name] paths
dirname(p) == p.dir

join(d, name) == [dir |-> d, name |-> name]

\* DataFrame.shape
Shape(df) == <<Len(df.rows), Len(df.columns)>>

\* pd.read_csv(path, index_col=...): the index column leaves the data
ColIx(columns, label) == CHOOSE k \in DOMAIN columns : columns[k] = label

DropAt(s, k) == SubSeq(s, 1, k - 1) \o SubSeq(s, k + 1, Len(s))

read_csv(table, index_col) ==
    LET k == ColIx(table.columns, index_col)
    IN  [columns |-> DropAt(table.columns, k),
         rows |-> [r \in DOMAIN table.rows |-> DropAt(table.rows[r], k)]]

\* DataFrame.iloc[:rstop, :cstop]
iloc(df, rstop, cstop) ==
    LET kept == PySlice(df.rows, 0, rstop)
    IN  [columns |-> PySlice(df.columns, 0, cstop),
         rows |-> [r \in DOMAIN kept |-> PySlice(kept[r], 0, cstop)]]

\* DataFrame.to_numpy()
to_numpy(df) == [shape |-> Shape(df), rows |-> df.rows]

\* mat[i1:i2, j1:j2]
SliceArray(m, i1, i2, j1, j2) ==
    LET kept == PySlice(m.rows, i1, i2)
        ncols == Len(PySlice([k \in 1..m.shape[2] |-> k], j1, j2))
    IN  [shape |-> <<Len(kept), ncols>>,
         rows |-> [r \in DOMAIN kept |-> PySlice(kept[r], j1, j2)]]

\* ndarray.flatten(): row-major
RECURSIVE FlattenRows(_)
FlattenRows(rows) ==
    IF rows = <<>> THEN <<>> ELSE Head(rows) \o FlattenRows(Tail(rows))

flatten(m) == FlattenRows(m.rows)

\* ndarray.argmin() / argmax(): 0-based index in the flattened array, one
\* scan that replaces the candidate only by a strictly better element
\* variant: the scan also replaces the candidate by an equal element
RECURSIVE ArgScanLast(_, _, _, _)
ArgScanLast(flat, k, best, wantMin) ==
    IF k > Len(flat) THEN best - 1
    ELSE LET better == IF wantMin THEN flat[k] <= flat[best]
                                  ELSE flat[k] >= flat[best]
         IN  ArgScanLast(flat, k + 1, IF better THEN k ELSE best, wantMin)

RECURSIVE ArgScan(_, _, _, _)
ArgScan(flat, k, best, wantMin) ==
    IF k > Len(flat) THEN best - 1
    ELSE LET better == IF wantMin THEN flat[k] < flat[best]
                                  ELSE flat[k] > flat[best]
         IN  ArgScan(flat, k + 1, IF better THEN k ELSE best, wantMin)

argmin(m) == ArgScan(flatten(m), 1, 1, TRUE)

argmax(m) == ArgScan(flatten(m), 1, 1, FALSE)

\* np.unravel_index(ix, shape)
unravel_index(ix, shape) == <<ix \div shape[2], ix % shape[2]>>

\* DataFrame.rename(columns=mapping)
rename(df, mapping) ==
    [columns |-> [k \in DOMAIN df.columns |->
                     IF df.columns[k] \in DOMAIN mapping
                     THEN mapping[df.columns[k]] ELSE df.columns[k]],
     rows |-> df.rows]

\* df[label] = value for a new column
AddColumn(df, label, value) ==
    [columns |-> Append(df.columns, label),
     rows |-> [r \in DOMAIN df.rows |-> Append(df.rows[r], value)]]

\* variant: the frames are concatenated in the opposite order
concat_reversed(a, b) == [columns |-> b.columns, rows |-> b.rows \o a.rows]

\* pd.concat([a, b]) of two frames with the same columns
concat(a, b) == [columns |-> a.columns, rows |-> a.rows \o b.rows]

\* lexicographic order of the group keys
LexLeq(x, y) == x[1] < y[1] \/ (x[1] = y[1] /\ x[2] <= y[2])

RECURSIVE SortKeys(_)
SortKeys(S) ==
    IF S = {} THEN <<>>
    ELSE LET m == CHOOSE x \in S : \A y \in S : LexLeq(x, y)
         IN  <<m>> \o SortKeys(S \ {m})

\* variant: nunique() in place of size(): every group counts once
groupby_nunique(df, k1, k2) ==
    LET c1 == ColIx(df.columns, k1)
        c2 == ColIx(df.columns, k2)
        keys == SortKeys({<<df.rows[r][c1], df.rows[r][c2]>> : r \in DOMAIN df.rows})
    IN  [columns |-> <<k1, k2, "0">>,
         rows |-> [g \in DOMAIN keys |-> <<keys[g][1], keys[g][2], 1>>]]

\* df.groupby([k1, k2]).size().reset_index(): one row per observed key,
\* keys sorted, the size in an unnamed column (label 0)
groupby_size(df, k1, k2) ==
    LET c1 == ColIx(df.columns, k1)
        c2 == ColIx(df.columns, k2)
        keys == SortKeys({<<df.rows[r][c1], df.rows[r][c2]>> : r \in DOMAIN df.rows})
        Size(key) == Cardinality({r \in DOMAIN df.rows :
                        <<df.rows[r][c1], df.rows[r][c2]>> = key})
    IN  [columns |-> <<k1, k2, "0">>,
         rows |-> [g \in DOMAIN keys |-> <<keys[g][1], keys[g][2], Size(keys[g])>>]]

(***************************************************************************)
(* MinMaxAnalyzer                                                          *)
(***************************************************************************)
\* _return_min_max_ix(m)
return_min_max_ix(m) ==
    LET min_ix == unravel_index(argmin(m), m.shape)
        max_ix == unravel_index(argmax(m), m.shape)
    IN  <<min_ix[1], min_ix[2], max_ix[1], max_ix[2]>>

\* variant: the quotient is taken of one row less
RowsToDropOffByOne(data, n) ==
    Shape(data)[1] - ((Shape(data)[1] - 1) \div n) * n

\* variant: the quotient is rounded up
RowsToDropCeil(data, n) ==
    Shape(data)[1] - ((Shape(data)[1] + n - 1) \div n) * n

\* variant: only the columns are trimmed
TrimColumnsOnly(data, rtd) ==
    IF rtd = 0 THEN to_numpy(data)
    ELSE to_numpy(iloc(data, Len(data.rows), 0 - rtd))

\* rows_to_drop = data.shape[0] - int(data.shape[0] / n) * n
RowsToDrop(data, n) == Shape(data)[1] - (Shape(data)[1] \div n) * n

\* variant: the columns are left untrimmed
TrimRowsOnly(data, rtd) ==
    IF rtd = 0 THEN to_numpy(data)
    ELSE to_numpy(iloc(data, 0 - rtd, Len(data.columns)))

\* mat = data.to_numpy() or data.iloc[:-rows_to_drop, :-rows_to_drop].to_numpy()
Trim(data, rtd) ==
    IF rtd = 0 THEN to_numpy(data) ELSE to_numpy(iloc(data, 0 - rtd, 0 - rtd))

\* the two nested while loops that fill mat_list
\* variant: the inner loop stops one block early (j2 < instead of j2 <=)
RECURSIVE InnerLoopShort(_, _, _, _, _, _, _)
InnerLoopShort(m, n, i1, i2, j1, j2, acc) ==
    IF j2 < m.shape[2]
    THEN InnerLoopShort(m, n, i1, i2, j1 + n, j2 + n,
                        Append(acc, SliceArray(m, i1, i2, j1, j2)))
    ELSE acc

RECURSIVE InnerLoop(_, _, _, _, _, _, _)
InnerLoop(m, n, i1, i2, j1, j2, acc) ==
    IF j2 <= m.shape[2]
    THEN InnerLoop(m, n, i1, i2, j1 + n, j2 + n,
                   Append(acc, SliceArray(m, i1, i2, j1, j2)))
    ELSE acc

\* variant: the outer loop stops one block row early (i2 < instead of i2 <=)
RECURSIVE OuterLoopShort(_, _, _, _, _)
OuterLoopShort(m, n, i1, i2, acc) ==
    IF i2 < m.shape[1]
    THEN OuterLoopShort(m, n, i1 + n, i2 + n, InnerLoop(m, n, i1, i2, 0, n, acc))
    ELSE acc

\* variant: the outer loop tests the lower slice bound (i1 < in the place
\* of i2 <=)
RECURSIVE OuterLoopOver(_, _, _, _, _)
OuterLoopOver(m, n, i1, i2, acc) ==
    IF i1 < m.shape[1]
    THEN OuterLoopOver(m, n, i1 + n, i2 + n, InnerLoop(m, n, i1, i2, 0, n, acc))
    ELSE acc

RECURSIVE OuterLoop(_, _, _, _, _)
OuterLoop(m, n, i1, i2, acc) ==
    IF i2 <= m.shape[1]
    THEN OuterLoop(m, n, i1 + n, i2 + n, InnerLoop(m, n, i1, i2, 0, n, acc))
    ELSE acc

\* variant: mat_list is not reset between two files
SplitAccumulate(m, n) == OuterLoop(m, n, 0, n, mat_list)

Split(m, n) == OuterLoop(m, n, 0, n, <<>>)

\* f"ri_{i}_ci_{j}" for i in range(n) for j in range(n)
BlockColumns(n) ==
    [k \in 1..(n * n) |->
        "ri_" \o ToString((k - 1) \div n) \o "_ci_" \o ToString((k - 1) % n)]

\* variant: the blocks are flattened column by column
SubMatDfColumnMajor(ml, n) ==
    [columns |-> BlockColumns(n),
     rows |-> [k \in DOMAIN ml |->
                 [c \in 1..(ml[k].shape[1] * ml[k].shape[2]) |->
                     ml[k].rows[((c - 1) % ml[k].shape[1]) + 1]
                               [((c - 1) \div ml[k].shape[1]) + 1]]]]

\* sub_mat_df
SubMatDf(ml, n) ==
    [columns |-> BlockColumns(n), rows |-> [k \in DOMAIN ml |-> flatten(ml[k])]]

\* points: DataFrame.from_dict(min_max_ix_dict, orient="index"), renamed; an
\* empty dict gives a frame without columns
Points(ml) ==
    rename([columns |-> IF ml = <<>> THEN <<>> ELSE <<"0", "1", "2", "3">>,
            rows |-> [k \in DOMAIN ml |-> return_min_max_ix(ml[k])]],
           ("0" :> "min_r") @@ ("1" :> "min_c") @@ ("2" :> "max_r") @@ ("3" :> "max_c"))

\* variant: the size column of min_df keeps its label 0
MinDfUnnamed(pts) ==
    AddColumn(rename(groupby_size(pts, "min_r", "min_c"),
                     ("min_r" :> "r") @@ ("min_c" :> "c")),
              "type", "min")

\* min_df and max_df
MinDf(pts) ==
    AddColumn(rename(groupby_size(pts, "min_r", "min_c"),
                     ("0" :> "X3") @@ ("min_r" :> "r") @@ ("min_c" :> "c")),
              "type", "min")

MaxDf(pts) ==
    AddColumn(rename(groupby_size(pts, "max_r", "max_c"),
                     ("0" :> "X3") @@ ("max_r" :> "r") @@ ("max_c" :> "c")),
              "type", "max")

\* agg_points = pd.concat([min_df, max_df])
AggPoints(pts) == concat(MinDf(pts), MaxDf(pts))

\* variant: the block size of the file name is the default one
AggNameDefault(n) == "min_max_ix(3x3).csv"

\* variant: the name of the input file is part of the name of the table
AggPathPerFile(fp, n) ==
    join(dirname(fp), SubSeq(fp.name, 1, Len(fp.name) - 4) \o "_"
                        \o "min_max_ix(" \o ToString(n) \o "x" \o ToString(n)
                        \o ").csv")

\* names of the two output files
AggName(n) == "min_max_ix(" \o ToString(n) \o "x" \o ToString(n) \o ").csv"

FlatName(n) == "flattened_submat(" \o ToString(n) \o "x" \o ToString(n) \o ").csv"

AggPath(fp, n) == join(dirname(fp), AggName(n))

FlatPath(fp, n) == join(dirname(fp), FlatName(n))

\* AnalysisData.add_minmax_data / get_minmax_data
add_minmax_data(container, fp, df) == (fp :> df) @@ container

\* DataFrame.to_csv(path, index=False)
to_csv(d, path, df) == (path :> df) @@ d

\* source lines of the statements of _process_minmax that raise or write
LineNegative == 118

LineTrim == 122

LineMain == 125

LineSmaller == 127

LineSplit == 141

LineFlatten == 147

LinePoints == 154

LineGroup == 157

LineConcat == 165

LineStore == 168

LineSaveAgg == 172

LineSaveFlat == 173

\* variant: the squareness check is missing
RaiseSitesNoSquare(rtd, m, n, pts) ==
      (IF rtd < 0 THEN {[line |-> LineNegative, exc |-> ErrNegative]} ELSE {})
    \cup (IF m.shape[1] % n # 0
          THEN {[line |-> LineSmaller, exc |-> ErrSmaller]} ELSE {})
    \cup (IF "min_r" \notin Range(pts.columns)
          THEN {[line |-> LineGroup, exc |-> ErrKey]} ELSE {})

\* variant: the dimension checks are made after the tables are written
RaiseSitesLate(rtd, m, n, pts) ==
      (IF rtd < 0 THEN {[line |-> LineNegative, exc |-> ErrNegative]} ELSE {})
    \cup (IF m.shape[1] # m.shape[2]
          THEN {[line |-> LineSaveFlat + 1, exc |-> ErrMain]} ELSE {})
    \cup (IF m.shape[1] % n # 0
          THEN {[line |-> LineSaveFlat + 2, exc |-> ErrSmaller]} ELSE {})
    \cup (IF "min_r" \notin Range(pts.columns)
          THEN {[line |-> LineGroup, exc |-> ErrKey]} ELSE {})

\* the raise statements whose condition holds, each with its line
\* variant: a matrix without rows fails the divisibility check
RaiseSitesEmpty(rtd, m, n, pts) ==
      (IF rtd < 0 THEN {[line |-> LineNegative, exc |-> ErrNegative]} ELSE {})
    \cup (IF m.shape[1] # m.shape[2]
          THEN {[line |-> LineMain, exc |-> ErrMain]} ELSE {})
    \cup (IF m.shape[1] % n # 0 \/ m.shape[1] = 0
          THEN {[line |-> LineSmaller, exc |-> ErrSmaller]} ELSE {})
    \cup (IF "min_r" \notin Range(pts.columns)
          THEN {[line |-> LineGroup, exc |-> ErrKey]} ELSE {})

RaiseSites(rtd, m, n, pts) ==
      (IF rtd < 0 THEN {[line |-> LineNegative, exc |-> ErrNegative]} ELSE {})
    \cup (IF m.shape[1] # m.shape[2]
          THEN {[line |-> LineMain, exc |-> ErrMain]} ELSE {})
    \cup (IF m.shape[1] % n # 0
          THEN {[line |-> LineSmaller, exc |-> ErrSmaller]} ELSE {})
    \cup (IF "min_r" \notin Range(pts.columns)
          THEN {[line |-> LineGroup, exc |-> ErrKey]} ELSE {})

\* the first of them in program order; line 0 when nothing raises
FirstRaise(sites) ==
    IF sites = {} THEN [line |-> 0, exc |-> NoException]
    ELSE CHOOSE s \in sites : \A t \in sites : s.line <= t.line

\* a statement runs iff no statement before it raised
Runs(line, raise) == raise.line = 0 \/ line < raise.line

(***************************************************************************)
(* Inputs                                                                  *)
(***************************************************************************)
PathA == [dir |-> "save/a", name |-> "a.csv"]

PathB == [dir |-> "save/a", name |-> "b.csv"]

PathC == [dir |-> "save/c", name |-> "c.csv"]

Paths == {PathA, PathB, PathC}

\* value generators: cell (i, j) holds (a*i + b*j + d) % m
Gens == [a : 0..MaxCoef, b : 0..MaxCoef, d : 0..MaxCoef, m : 1..MaxMod]

BatchGens == [a : {0, 1}, b : {0, 1}, d : {0}, m : {2}]

\* the generator of the values 0..35 in row-major order on a 6 x 6 grid
SeqGens == {[a |-> 6, b |-> 1, d |-> 0, m |-> 36]}

Cell(g, i, j) == (g.a * i + g.b * j + g.d) % g.m

\* the CSV file txt_to_csv_folder writes for an R x C table of values
Csv(R, C, g) ==
    [columns |-> <<"DataLine">> \o [k \in 1..C |-> "Pos = " \o ToString(k - 1)],
     rows |-> [i \in 1..R |-> <<i - 1>> \o [j \in 1..C |-> Cell(g, i - 1, j - 1)]]]

Csvs(side, gens) == {Csv(R, C, g) : R \in 0..side, C \in 0..side, g \in gens}

BatchLists == {<<PathA, PathA>>, <<PathA, PathB>>, <<PathA, PathC>>,
               <<PathC, PathA>>, <<PathA, PathB, PathA>>}

(***************************************************************************)
(* State machine                                                           *)
(***************************************************************************)
InitLocals ==
    /\ idx = 1
    /\ exception = NoException
    /\ returned = FALSE
    /\ minmax_data = <<>>
    /\ file_path = NoPath
    /\ rows_to_drop = 0
    /\ mat = EmptyArray
    /\ mat_list = <<>>
    /\ sub_mat_df = EmptyFrame
    /\ points = EmptyFrame
    /\ agg_points = EmptyFrame
    /\ history = <<>>

\* one input file, from the large family of tables
InitSingle ==
    /\ datasets = <<PathC>>
    /\ \E t \in Csvs(MaxSide, Gens) \cup Csvs(MaxSide, SeqGens) :
          disk = (PathC :> t)
    /\ matrix_size \in 1..MaxN
    /\ InitLocals

\* several input files, from the small family of tables
InitBatch ==
    /\ datasets \in BatchLists
    /\ disk \in [Range(datasets) -> Csvs(BatchSide, BatchGens)]
    /\ matrix_size \in 1..MaxN
    /\ InitLocals

\* AnalysisData.__init__: the dictionaries start empty
DataIdle ==
    /\ persistence_diagrams = <<>>
    /\ acf_data = <<>>
    /\ calls = <<>>

\* no analyze call of MinMaxAnalyzer is under way
MinMaxIdle ==
    /\ datasets = <<>>
    /\ matrix_size = 1
    /\ InitLocals

\* no get_files call is under way
FilesIdle ==
    /\ tree = {}
    /\ path_to_data = ""
    /\ exclude_patterns = [none |-> TRUE, list |-> <<>>]
    /\ files_list = <<>>

\* no conversion is under way
ConvertIdle ==
    /\ dataset = <<>>
    /\ dirs = {}
    /\ error = NoException

NoArgs == [multiply_const |-> [given |-> FALSE, value |-> 0],
           matrix_size |-> 1,
           exclude |-> <<>>]

\* main has not been started
PipelineIdle ==
    /\ args = NoArgs
    /\ trace = <<>>
    /\ stdout = <<>>
    /\ bottleneck_results = <<>>

\* no legacy call and no diagram collection has been made
ExtraIdle ==
    /\ legacy = "not called"
    /\ diags = <<>>
    /\ calc_only = <<>>
    /\ persistence_analyzer = FALSE
    /\ run_no = 1

RestIdle ==
    /\ DataIdle
    /\ pc = "idle"
    /\ FilesIdle
    /\ ConvertIdle
    /\ PipelineIdle
    /\ ExtraIdle

Init == (InitSingle \/ InitBatch) /\ RestIdle

\* variant: an exception of _process_minmax does not leave the loop
AnalyzeIteratesAfterError == ~returned /\ idx <= Len(datasets)

\* the for statement of analyze has a next item: no exception has left the
\* loop and the list is not exhausted
AnalyzeIterates ==
    ~returned /\ exception = NoException /\ idx <= Len(datasets)

\* one iteration of the for loop of analyze: self._process_minmax(file_path, n)
ProcessMinmax ==
    /\ AnalyzeIterates
    /\ LET fp == datasets[idx]
           n == matrix_size
           data == read_csv(disk[fp], "DataLine")
           rtd == RowsToDrop(data, n)
           m == Trim(data, rtd)
           ml == Split(m, n)
           smd == SubMatDf(ml, n)
           pts == Points(ml)
           raise == FirstRaise(RaiseSites(rtd, m, n, pts))
           agg == IF Runs(LineConcat, raise) THEN AggPoints(pts) ELSE EmptyFrame
           d1 == IF Runs(LineSaveAgg, raise)
                 THEN to_csv(disk, AggPath(fp, n), agg) ELSE disk
           d2 == IF Runs(LineSaveFlat, raise)
                 THEN to_csv(d1, FlatPath(fp, n), smd) ELSE d1
       IN  /\ file_path' = fp
           /\ rows_to_drop' = rtd
           /\ mat' = IF Runs(LineTrim, raise) THEN m ELSE EmptyArray
           /\ mat_list' = IF Runs(LineSplit, raise) THEN ml ELSE <<>>
           /\ sub_mat_df' = IF Runs(LineFlatten, raise) THEN smd ELSE EmptyFrame
           /\ points' = IF Runs(LinePoints, raise) THEN pts ELSE EmptyFrame
           /\ agg_points' = agg
           /\ minmax_data' = IF Runs(LineStore, raise)
                             THEN add_minmax_data(minmax_data, fp, agg)
                             ELSE minmax_data
           /\ disk' = d2
           /\ exception' = raise.exc
           /\ idx' = IF raise.line = 0 THEN idx + 1 ELSE idx
           /\ history' = Append(history,
                 [path |-> fp,
                  input |-> disk[fp],
                  exception |-> raise.exc,
                  agg |-> IF Runs(LineSaveAgg, raise)
                          THEN d2[AggPath(fp, n)] ELSE EmptyFrame,
                  flat |-> IF Runs(LineSaveFlat, raise)
                           THEN d2[FlatPath(fp, n)] ELSE EmptyFrame])
    /\ UNCHANGED <<datasets, matrix_size, returned, restVars>>

\* the for loop of analyze is exhausted: analyze returns
AnalyzeReturn ==
    /\ ~returned
    /\ exception = NoException
    /\ idx > Len(datasets)
    /\ returned' = TRUE
    /\ UNCHANGED <<disk, minmax_data, datasets, matrix_size, idx, exception,
                   file_path, rows_to_drop, mat, mat_list, sub_mat_df, points,
                   agg_points, history, restVars>>

Next == ProcessMinmax \/ AnalyzeReturn

Spec == Init /\ [][Next]_vars

TypeOK ==
    /\ idx \in 1..(Len(datasets) + 1)
    /\ exception \in {NoException, ErrNegative, ErrMain, ErrSmaller, ErrKey}
    /\ returned \in BOOLEAN

(***************************************************************************)
(* Properties                                                              *)
(***************************************************************************)
\* _process_minmax has been called at least once
Called == file_path # NoPath

\* the latest call passed the dimension checks (the partition step ran)
PassedChecks == Called /\ exception \in {NoException, ErrKey}

\* the latest call completed: both tables stored and written
Succeeded == Called /\ exception = NoException

DimensionErrors == {ErrNegative, ErrMain, ErrSmaller}

\* the input table of the latest call: R rows, C data columns
InputRows == Len(disk[file_path].rows)

InputCols == Len(disk[file_path].columns) - 1

InputCell(i, j) == disk[file_path].rows[i + 1][j + 2]

\* cell (r, c) of the trimmed grid, 0-based
MatCell(r, c) == mat.rows[r + 1][c + 1]

\* blocks per side of the trimmed grid
BlocksPerSide == mat.shape[1] \div matrix_size

\* C1: for a square trimmed grid of side N with N % n = 0 the partition step
\* yields exactly (N/n)^2 blocks, each n x n, and putting the blocks back in
\* the order produced (block k at block-row k div (N/n), block-column
\* k mod (N/n)) gives the trimmed grid back cell for cell: every cell lies in
\* exactly one block.
C1_Partition ==
    (PassedChecks /\ mat.shape[1] = mat.shape[2]
                  /\ mat.shape[1] % matrix_size = 0) =>
        /\ Len(mat_list) = BlocksPerSide * BlocksPerSide
        /\ \A k \in DOMAIN mat_list :
              /\ mat_list[k].shape = <<matrix_size, matrix_size>>
              /\ Len(mat_list[k].rows) = matrix_size
              /\ \A i \in 1..matrix_size :
                    Len(mat_list[k].rows[i]) = matrix_size
        /\ \A r \in 0..(mat.shape[1] - 1), c \in 0..(mat.shape[2] - 1) :
              LET k == (r \div matrix_size) * BlocksPerSide + (c \div matrix_size)
              IN  /\ k + 1 \in DOMAIN mat_list
                  /\ mat_list[k + 1].rows[(r % matrix_size) + 1]
                                         [(c % matrix_size) + 1] = MatCell(r, c)

\* a 2 x 2 or larger arrangement of blocks of side >= 2, not all cells equal
C1_Witness ==
    /\ PassedChecks
    /\ matrix_size >= 2
    /\ Len(mat_list) >= 4
    /\ \E r \in 1..mat.shape[1], c \in 1..mat.shape[2] :
          mat.rows[r][c] # mat.rows[1][1]

\* C2: the flattened-blocks table has one row per block in row-major block
\* order; with B = N/n, row k in column ri_{i}_ci_{j} holds the trimmed-grid
\* value at ((k div B)*n + i, (k mod B)*n + j), and the columns are ordered
\* ri_0_ci_0, ri_0_ci_1, ..., ri_{n-1}_ci_{n-1}; the file written holds
\* that table.
C2_FlattenedTable ==
    PassedChecks =>
        /\ Len(sub_mat_df.rows) = BlocksPerSide * BlocksPerSide
        /\ Len(sub_mat_df.columns) = matrix_size * matrix_size
        /\ \A i \in 0..(matrix_size - 1), j \in 0..(matrix_size - 1) :
              /\ sub_mat_df.columns[i * matrix_size + j + 1]
                    = "ri_" \o ToString(i) \o "_ci_" \o ToString(j)
              /\ \A k \in 0..(BlocksPerSide * BlocksPerSide - 1) :
                    sub_mat_df.rows[k + 1][i * matrix_size + j + 1]
                       = MatCell((k \div BlocksPerSide) * matrix_size + i,
                                 (k % BlocksPerSide) * matrix_size + j)
        /\ Succeeded => disk[FlatPath(file_path, matrix_size)] = sub_mat_df

\* a written table of at least four blocks of side >= 2 from an asymmetric grid
C2_Witness ==
    /\ Succeeded
    /\ matrix_size >= 2
    /\ Len(disk[FlatPath(file_path, matrix_size)].rows) >= 4
    /\ \E r \in 1..mat.shape[1], c \in 1..mat.shape[2] :
          mat.rows[r][c] # mat.rows[c][r]

\* the cells of block b that hold value v
CellsWith(b, v) ==
    {<<i, j>> \in (0..(b.shape[1] - 1)) \X (0..(b.shape[2] - 1)) :
        b.rows[i + 1][j + 1] = v}

BlockValues(b) ==
    {b.rows[i][j] : i \in 1..b.shape[1], j \in 1..b.shape[2]}

\* <<i, j>> comes first in row-major order among the cells of S
RowMajorFirst(p, S) ==
    /\ p \in S
    /\ \A q \in S : q[1] > p[1] \/ (q[1] = p[1] /\ q[2] >= p[2])

\* C3: for every block, _return_min_max_ix returns (min_row, min_col,
\* max_row, max_col) with all coordinates in [0, n), pointing at the block
\* minimum and the block maximum, each at its first occurrence in row-major
\* order (a block of equal values gives (0, 0, 0, 0)).
C3_ExtremumLocator ==
    PassedChecks =>
        /\ Len(points.rows) = Len(mat_list)
        /\ \A k \in DOMAIN mat_list :
              LET b == mat_list[k]
                  ix == points.rows[k]
                  lo == CHOOSE v \in BlockValues(b) : \A w \in BlockValues(b) : v <= w
                  hi == CHOOSE v \in BlockValues(b) : \A w \in BlockValues(b) : v >= w
              IN  /\ \A c \in 1..4 : ix[c] \in 0..(matrix_size - 1)
                  /\ RowMajorFirst(<<ix[1], ix[2]>>, CellsWith(b, lo))
                  /\ RowMajorFirst(<<ix[3], ix[4]>>, CellsWith(b, hi))
                  /\ (lo = hi => ix = <<0, 0, 0, 0>>)

\* a block whose minimum and maximum both occur more than once, neither
\* first at (0, 0)
C3_Witness ==
    /\ PassedChecks
    /\ \E k \in DOMAIN mat_list :
          LET b == mat_list[k]
              ix == points.rows[k]
          IN  /\ Cardinality(CellsWith(b, b.rows[ix[1] + 1][ix[2] + 1])) >= 2
              /\ Cardinality(CellsWith(b, b.rows[ix[3] + 1][ix[4] + 1])) >= 2
              /\ <<ix[1], ix[2]>> # <<0, 0>>
              /\ <<ix[3], ix[4]>> # <<0, 0>>

\* the aggregated table written for the latest file
AggTable == disk[AggPath(file_path, matrix_size)]

RECURSIVE SumCounts(_, _)
SumCounts(rows, kind) ==
    IF rows = <<>> THEN 0
    ELSE (IF Head(rows)[4] = kind THEN Head(rows)[3] ELSE 0)
         + SumCounts(Tail(rows), kind)

\* C4: in the aggregated table of a successfully processed file the counts
\* of the rows of kind min sum to the number of blocks of the file, and so
\* do the counts of the rows of kind max.
C4_CountSums ==
    Succeeded =>
        /\ SumCounts(AggTable.rows, "min") = Len(mat_list)
        /\ SumCounts(AggTable.rows, "max") = Len(mat_list)
        /\ Len(mat_list) = BlocksPerSide * BlocksPerSide

\* several blocks share one minimum position while another position occurs too
C4_Witness ==
    /\ Succeeded
    /\ Len(mat_list) >= 4
    /\ \E a, b \in DOMAIN AggTable.rows :
          /\ a # b
          /\ AggTable.rows[a][4] = "min"
          /\ AggTable.rows[b][4] = "min"
          /\ AggTable.rows[a][3] >= 2

\* C5: rows_to_drop = total_rows - floor(total_rows/n)*n; with k = rows_to_drop
\* the grid keeps exactly the cells outside the last k rows and the last k
\* columns, unchanged and in place (nothing leaves from the top or the left,
\* the same k on both axes; k = 0 keeps the whole table); a 7 x 7 input with
\* n = 3 becomes its first 6 rows and first 6 columns.
C5_Trim ==
    Called =>
        /\ rows_to_drop = InputRows - (InputRows \div matrix_size) * matrix_size
        /\ mat.shape = <<InputRows - rows_to_drop,
                         Max2(InputCols - rows_to_drop, 0)>>
        /\ Len(mat.rows) = mat.shape[1]
        /\ \A i \in 0..(mat.shape[1] - 1) :
              /\ Len(mat.rows[i + 1]) = mat.shape[2]
              /\ \A j \in 0..(mat.shape[2] - 1) : MatCell(i, j) = InputCell(i, j)
        /\ (InputRows = 7 /\ InputCols = 7 /\ matrix_size = 3) =>
              mat.shape = <<6, 6>>

\* the 7 x 7 input with n = 3, trimmed to 6 x 6
C5_Witness ==
    /\ Called
    /\ InputRows = 7
    /\ InputCols = 7
    /\ matrix_size = 3
    /\ rows_to_drop = 1
    /\ mat.shape = <<6, 6>>
    /\ InputCell(6, 6) # InputCell(0, 0)

\* C6 as stated: a trimmed matrix that is not square or whose side is not a
\* multiple of n gives a dimension error before any block is formed, and
\* every input whose number of rows differs from its number of data columns
\* is rejected with a dimension error.
C6_Original ==
    Called =>
        /\ (mat.shape[1] # mat.shape[2] \/ mat.shape[1] % matrix_size # 0) =>
              (exception \in DimensionErrors /\ mat_list = <<>>)
        /\ InputRows # InputCols => exception \in DimensionErrors

\* C6 amended: a trimmed matrix that is not square or whose side is not a
\* multiple of n gives a dimension error before any block is formed; every
\* input whose number of rows differs from its number of data columns is
\* rejected with a dimension error, except an input with fewer rows than n
\* and fewer data columns than rows (trimmed to 0 x 0, it passes both checks).
C6_DimensionError ==
    Called =>
        /\ (mat.shape[1] # mat.shape[2] \/ mat.shape[1] % matrix_size # 0) =>
              (exception \in DimensionErrors /\ mat_list = <<>>)
        /\ (InputRows # InputCols
              /\ ~(InputRows < matrix_size /\ InputCols < InputRows)) =>
              exception \in DimensionErrors

\* a trimmed, non-square input is rejected
C6_Witness ==
    /\ Called
    /\ InputRows # InputCols
    /\ rows_to_drop > 0
    /\ mat.shape[1] > 0
    /\ mat.shape[2] > 0
    /\ exception = ErrMain
    /\ mat_list = <<>>

\* C7: a call of _process_minmax that raises a dimension error writes
\* neither table and adds no entry to the container: the file system and
\* the container are as they were before the call.
C7_NoPartialOutput ==
    [][exception' \in DimensionErrors =>
          (disk' = disk /\ minmax_data' = minmax_data)]_vars

\* a dimension error for a file whose directory already holds the tables of
\* an earlier file of the batch
C7_Witness ==
    /\ exception \in DimensionErrors
    /\ idx >= 2
    /\ dirname(datasets[idx]) = dirname(datasets[1])
    /\ datasets[idx] # datasets[1]
    /\ AggPath(datasets[idx], matrix_size) \in DOMAIN disk
    /\ FlatPath(datasets[idx], matrix_size) \in DOMAIN disk
    /\ datasets[1] \in DOMAIN minmax_data
    /\ datasets[idx] \notin DOMAIN minmax_data

ObservedMin == {<<points.rows[k][1], points.rows[k][2]>> : k \in DOMAIN points.rows}

ObservedMax == {<<points.rows[k][3], points.rows[k][4]>> : k \in DOMAIN points.rows}

RowsOfKind(t, kind) == {k \in DOMAIN t.rows : t.rows[k][4] = kind}

\* C9: the aggregated table has exactly one row for each (position, kind)
\* pair observed as the min (max) position of at least one block, no row for
\* an unobserved pair, no duplicate pair, and all rows of kind min come
\* before all rows of kind max.
C9_AggregatedRows ==
    Succeeded =>
        /\ {<<AggTable.rows[k][1], AggTable.rows[k][2]>> :
               k \in RowsOfKind(AggTable, "min")} = ObservedMin
        /\ {<<AggTable.rows[k][1], AggTable.rows[k][2]>> :
               k \in RowsOfKind(AggTable, "max")} = ObservedMax
        /\ Cardinality(RowsOfKind(AggTable, "min")) = Cardinality(ObservedMin)
        /\ Cardinality(RowsOfKind(AggTable, "max")) = Cardinality(ObservedMax)
        /\ RowsOfKind(AggTable, "min") \cup RowsOfKind(AggTable, "max")
              = DOMAIN AggTable.rows
        /\ \A a \in RowsOfKind(AggTable, "min"),
              b \in RowsOfKind(AggTable, "max") : a < b

\* several observed minimum positions and several observed maximum positions
C9_Witness ==
    /\ Succeeded
    /\ Cardinality(ObservedMin) >= 2
    /\ Cardinality(ObservedMax) >= 2
    /\ Len(points.rows) > Cardinality(ObservedMin)

\* C10 as stated: the aggregated table written for a processed file has
\* exactly the four columns r, c, count, kind in that order, every value of
\* the kind column being min or max.
C10_Original ==
    Succeeded =>
        /\ AggTable.columns = <<"r", "c", "count", "kind">>
        /\ \A k \in DOMAIN AggTable.rows :
              /\ Len(AggTable.rows[k]) = 4
              /\ AggTable.rows[k][4] \in {"min", "max"}

\* C10 amended: the aggregated table written for a processed file has
\* exactly the four columns r, c, X3, type in that order, every value of the
\* type column being min or max.
C10_Columns ==
    Succeeded =>
        /\ AggTable.columns = <<"r", "c", "X3", "type">>
        /\ \A k \in DOMAIN AggTable.rows :
              /\ Len(AggTable.rows[k]) = 4
              /\ AggTable.rows[k][4] \in {"min", "max"}

\* a written table holding rows of both kinds
C10_Witness ==
    /\ Succeeded
    /\ RowsOfKind(AggTable, "min") # {}
    /\ RowsOfKind(AggTable, "max") # {}
    /\ AggTable = minmax_data[file_path]

SequentialGrid ==
    /\ Called
    /\ InputRows = 6
    /\ InputCols = 6
    /\ \A i \in 0..5, j \in 0..5 : InputCell(i, j) = 6 * i + j

\* C12: the 6 x 6 grid holding 0..35 in row-major order, processed with
\* n = 3, gives exactly 4 blocks; block (0,0) is rows 0-2 and columns 0-2,
\* its minimum 0 lies at relative (0,0) and its maximum 14 at relative (2,2);
\* the aggregated table has a row r = 0, c = 0, kind min with count >= 1.
C12_Scenario ==
    (SequentialGrid /\ matrix_size = 3) =>
        /\ Succeeded
        /\ Len(mat_list) = 4
        /\ mat_list[1].rows = <<<<0, 1, 2>>, <<6, 7, 8>>, <<12, 13, 14>>>>
        /\ points.rows[1] = <<0, 0, 2, 2>>
        /\ mat_list[1].rows[1][1] = 0
        /\ mat_list[1].rows[3][3] = 14
        /\ \E k \in DOMAIN AggTable.rows :
              /\ AggTable.rows[k][1] = 0
              /\ AggTable.rows[k][2] = 0
              /\ AggTable.rows[k][4] = "min"
              /\ AggTable.rows[k][3] >= 1

\* the scenario has run
C12_Witness ==
    /\ SequentialGrid
    /\ matrix_size = 3
    /\ Len(sub_mat_df.rows) = 4
    /\ exception = NoException

\* C13: with n = 1 an N x N grid (N >= 1) is processed with success and
\* without trimming, gives N*N single-cell blocks with minimum and maximum
\* at relative (0,0), and the aggregated table is exactly the two rows
\* (0, 0, N*N, min) and (0, 0, N*N, max).
C13_SingleCellBlocks ==
    (Called /\ matrix_size = 1 /\ InputRows = InputCols /\ InputRows >= 1) =>
        /\ Succeeded
        /\ rows_to_drop = 0
        /\ mat.shape = <<InputRows, InputCols>>
        /\ Len(mat_list) = InputRows * InputRows
        /\ \A k \in DOMAIN mat_list :
              /\ mat_list[k].shape = <<1, 1>>
              /\ points.rows[k] = <<0, 0, 0, 0>>
        /\ AggTable.rows = <<<<0, 0, InputRows * InputRows, "min">>,
                             <<0, 0, InputRows * InputRows, "max">>>>

\* n = 1 on a grid of side >= 3 whose cells differ
C13_Witness ==
    /\ Succeeded
    /\ matrix_size = 1
    /\ InputRows = InputCols
    /\ InputRows >= 3
    /\ InputCell(0, 0) # InputCell(1, 2)
    /\ Len(AggTable.rows) = 2

\* C14: for every row count R >= 0 and block size n >= 1 the computed
\* rows_to_drop lies in 0..n-1, so the negative-trim error is never raised.
C14_TrimCountRange ==
    Called =>
        /\ rows_to_drop >= 0
        /\ rows_to_drop <= matrix_size - 1
        /\ exception # ErrNegative
        /\ \A a \in DOMAIN history : history[a].exception # ErrNegative

\* the largest trim count of the largest block size
C14_Witness ==
    /\ Called
    /\ matrix_size = MaxN
    /\ rows_to_drop = MaxN - 1
    /\ InputRows > MaxN

\* every file before the loop position was processed with success
EarlierFilesWritten ==
    \A a \in 1..(idx - 1) :
        /\ history[a].exception = NoException
        /\ AggPath(datasets[a], matrix_size) \in DOMAIN disk
        /\ FlatPath(datasets[a], matrix_size) \in DOMAIN disk
        /\ datasets[a] \in DOMAIN minmax_data

\* C15: analyze processes the files strictly in list order, one whole call
\* of _process_minmax after the other, without retry and without skipping:
\* when file k raises, the error leaves analyze, the outputs of the files
\* 1..k-1 are written and no later file is read or written (nothing changes
\* any more).
C15_ListOrder ==
    /\ [](/\ Len(history) = (idx - 1) + (IF exception = NoException THEN 0 ELSE 1)
          /\ \A a \in DOMAIN history : history[a].path = datasets[a]
          /\ EarlierFilesWritten
          /\ exception # NoException => ~returned)
    /\ [][/\ exception = NoException
          /\ Len(history') <= Len(history) + 1
          /\ SubSeq(history', 1, Len(history)) = history]_vars

\* the second of three files raised a dimension error after the first one
\* was written
C15_Witness ==
    /\ exception \in DimensionErrors
    /\ Len(datasets) = 3
    /\ idx = 2
    /\ Len(history) = 2
    /\ AggPath(datasets[1], matrix_size) \in DOMAIN disk

(***************************************************************************)
(* AnalysisData: the shared results container                              *)
(***************************************************************************)
\* the value a getter returns for a path that was never added
None == "None"

\* the stored results; the container never looks into them
Values == {"result 1", "result 2"}

Kinds == {"persistence", "acf", "minmax"}

\* variant: the assignment replaces the dictionary by the new entry
add_acf_data_replace(d, fp, value) == (fp :> value)

\* self.persistence_diagrams[file_path] = diagram
add_persistence_diagram(d, fp, value) == (fp :> value) @@ d

\* self.acf_data[file_path] = acf_data
add_acf_data(d, fp, value) == (fp :> value) @@ d

\* return self.persistence_diagrams.get(file_path)
get_persistence_diagram(fp) ==
    IF fp \in DOMAIN persistence_diagrams THEN persistence_diagrams[fp] ELSE None

\* return self.acf_data.get(file_path)
get_acf_data(fp) == IF fp \in DOMAIN acf_data THEN acf_data[fp] ELSE None

\* return self.minmax_data.get(file_path)
get_minmax_data(fp) == IF fp \in DOMAIN minmax_data THEN minmax_data[fp] ELSE None

\* AnalysisData(): three empty dictionaries, nothing else is running
InitData ==
    /\ disk = <<>>
    /\ MinMaxIdle
    /\ DataIdle
    /\ pc = "idle"
    /\ FilesIdle
    /\ ConvertIdle
    /\ PipelineIdle
    /\ ExtraIdle

AddPersistenceDiagram ==
    /\ Len(calls) < MaxAdds
    /\ \E fp \in Paths, value \in Values :
          /\ persistence_diagrams' =
                add_persistence_diagram(persistence_diagrams, fp, value)
          /\ calls' = Append(calls, [kind |-> "persistence", path |-> fp,
                                     value |-> value])
    /\ UNCHANGED <<extraVars, disk, minmax_data, minmaxVars, acf_data, pc, filesVars,
                   convertVars, pipelineVars>>

AddAcfData ==
    /\ Len(calls) < MaxAdds
    /\ \E fp \in Paths, value \in Values :
          /\ acf_data' = add_acf_data(acf_data, fp, value)
          /\ calls' = Append(calls, [kind |-> "acf", path |-> fp,
                                     value |-> value])
    /\ UNCHANGED <<extraVars, disk, minmax_data, minmaxVars, persistence_diagrams, pc,
                   filesVars, convertVars, pipelineVars>>

AddMinmaxData ==
    /\ Len(calls) < MaxAdds
    /\ \E fp \in Paths, value \in Values :
          /\ minmax_data' = add_minmax_data(minmax_data, fp, value)
          /\ calls' = Append(calls, [kind |-> "minmax", path |-> fp,
                                     value |-> value])
    /\ UNCHANGED <<extraVars, disk, minmaxVars, persistence_diagrams, acf_data, pc,
                   filesVars, convertVars, pipelineVars>>

NextData == AddPersistenceDiagram \/ AddAcfData \/ AddMinmaxData

SpecData == InitData /\ [][NextData]_vars

\* what the getter of a kind returns for a path
Get(kind, fp) ==
    IF kind = "persistence" THEN get_persistence_diagram(fp)
    ELSE IF kind = "acf" THEN get_acf_data(fp)
    ELSE get_minmax_data(fp)

\* positions of the adds of a kind for a path
AddsOf(kind, fp) ==
    {k \in DOMAIN calls : calls[k].kind = kind /\ calls[k].path = fp}

\* the value most recently added for a path under a kind, None if none was
LastAdded(kind, fp) ==
    IF AddsOf(kind, fp) = {} THEN None
    ELSE calls[CHOOSE k \in AddsOf(kind, fp) :
                    \A l \in AddsOf(kind, fp) : l <= k].value

\* C16: after any sequence of add_* calls each get_* call for a path returns
\* the value most recently added for that path under that kind, or None if
\* nothing was added for it; an add for one path and kind changes neither the
\* entry of another path nor any entry of the two other kinds.
C16_ContainerFrame ==
    /\ [](\A kind \in Kinds, fp \in Paths : Get(kind, fp) = LastAdded(kind, fp))
    /\ [][\A kind \in Kinds, fp \in Paths :
            (kind # calls'[Len(calls')].kind \/ fp # calls'[Len(calls')].path)
                => Get(kind, fp)' = Get(kind, fp)]_vars

\* a path was added twice under one kind with different values, another
\* path and another kind hold entries, and one path was never added
C16_Witness ==
    /\ Len(calls) = 3
    /\ calls[1].kind = "acf" /\ calls[1].path = PathA
    /\ calls[2].kind = "minmax" /\ calls[2].path = PathB
    /\ calls[3].kind = "acf" /\ calls[3].path = PathA
    /\ calls[3].value # calls[1].value
    /\ get_acf_data(PathA) = calls[3].value
    /\ get_acf_data(PathC) = None

(***************************************************************************)
(* Analyzer.get_files: recursive collection of the CSV files               *)
(***************************************************************************)
\* str.endswith and str.startswith
endswith(s, suffix) ==
    /\ Len(s) >= Len(suffix)
    /\ SubSeq(s, Len(s) - Len(suffix) + 1, Len(s)) = suffix

startswith(s, prefix) ==
    /\ Len(s) >= Len(prefix)
    /\ SubSeq(s, 1, Len(prefix)) = prefix

\* directory dir is top or lies below it
IsUnder(dir, top) == dir = top \/ startswith(dir, top \o "/")

\* the directories os.walk(top) visits: top and everything below it
DirsUnder(t, top) == {f.dir : f \in {g \in t : IsUnder(g.dir, top)}}

\* the orders in which the entries of a set may be listed
Perms(S) ==
    {p \in [1..Cardinality(S) -> S] :
        \A i, j \in 1..Cardinality(S) : i # j => p[i] # p[j]}

\* os.walk is top-down: a directory is visited before those below it
TopDown(order) ==
    \A i, j \in DOMAIN order :
        (i # j /\ IsUnder(order[j], order[i])) => i < j

\* the (root, files) pairs os.walk may yield for one directory
Listings(t, root) ==
    {[root |-> root, files |-> p] :
        p \in Perms({f.name : f \in {g \in t : g.dir = root}})}

\* os.walk(top): every visited directory once, in some top-down order,
\* each with its files in some order
Walks(t, top) ==
    UNION {{w \in [1..Len(order) ->
                    UNION {Listings(t, order[k]) : k \in DOMAIN order}] :
                \A k \in DOMAIN order : w[k].root = order[k]} :
           order \in {p \in Perms(DirsUnder(t, top)) : TopDown(p)}}

\* variant: all(...) in the place of any(...)
AllEndswith(file, patterns) ==
    \A k \in DOMAIN patterns : endswith(file, patterns[k])

\* any(file.endswith(pattern) for pattern in exclude_patterns)
AnyEndswith(file, patterns) ==
    \E k \in DOMAIN patterns : endswith(file, patterns[k])

\* the inner loop: for file in files
RECURSIVE FilesLoop(_, _, _, _)
FilesLoop(root, names, patterns, acc) ==
    IF names = <<>> THEN acc
    ELSE FilesLoop(root, Tail(names), patterns,
                   IF endswith(Head(names), ".csv")
                      /\ ~AnyEndswith(Head(names), patterns)
                   THEN Append(acc, join(root, Head(names)))
                   ELSE acc)

\* the outer loop: for root, _, files in os.walk(path_to_data)
RECURSIVE WalkLoop(_, _, _)
WalkLoop(w, patterns, acc) ==
    IF w = <<>> THEN acc
    ELSE WalkLoop(Tail(w), patterns,
                  FilesLoop(Head(w).root, Head(w).files, patterns, acc))

\* get_files: None stands for the empty list of patterns
get_files(w, patterns) ==
    WalkLoop(w, IF patterns.none THEN <<>> ELSE patterns.list, <<>>)

WalkDirs == {"save", "save/a", "save/b", "raw"}

FileNames == {"a.csv", "a_auto.csv", "notes.txt", ".csv"}

PatternLists ==
    {[none |-> TRUE, list |-> <<>>],
     [none |-> FALSE, list |-> <<>>],
     [none |-> FALSE, list |-> <<"(3x3).csv", "_auto.csv", "output.csv">>],
     [none |-> FALSE, list |-> <<"a.csv", ".txt">>],
     [none |-> FALSE, list |-> <<"">>]}

Trees ==
    {t \in SUBSET {join(d, name) : d \in WalkDirs, name \in FileNames} :
        Cardinality(t) <= MaxFiles}

InitFiles ==
    /\ disk = <<>>
    /\ MinMaxIdle
    /\ DataIdle
    /\ pc = "get_files"
    /\ tree \in Trees
    /\ path_to_data \in {"save", "save/a"}
    /\ exclude_patterns \in PatternLists
    /\ files_list = <<>>
    /\ ConvertIdle
    /\ PipelineIdle
    /\ ExtraIdle

GetFiles ==
    /\ pc = "get_files"
    /\ \E w \in Walks(tree, path_to_data) :
          files_list' = get_files(w, exclude_patterns)
    /\ pc' = "returned"
    /\ UNCHANGED <<extraVars, disk, minmax_data, minmaxVars, dataVars, tree, path_to_data,
                   exclude_patterns, convertVars, pipelineVars>>

NextFiles == GetFiles

SpecFiles == InitFiles /\ [][NextFiles]_vars

\* the files found anywhere under path_to_data
FilesUnder == {f \in tree : IsUnder(f.dir, path_to_data)}

\* the name ends with one of the given exclude patterns
EndsWithPattern(name) ==
    \E k \in DOMAIN exclude_patterns.list :
        Len(name) >= Len(exclude_patterns.list[k])
        /\ \A c \in 1..Len(exclude_patterns.list[k]) :
              SubSeq(name, Len(name) - c + 1, Len(name) - c + 1)
                = SubSeq(exclude_patterns.list[k],
                         Len(exclude_patterns.list[k]) - c + 1,
                         Len(exclude_patterns.list[k]) - c + 1)

\* C19: get_files returns exactly the files found anywhere under
\* path_to_data whose name ends with ".csv" and with none of the exclude
\* patterns, each once; with the patterns None or empty it returns every
\* ".csv" file under the directory.
C19_GetFiles ==
    pc = "returned" =>
        /\ Range(files_list) =
              {f \in FilesUnder :
                  /\ Len(f.name) >= 4
                  /\ SubSeq(f.name, Len(f.name) - 3, Len(f.name)) = ".csv"
                  /\ ~EndsWithPattern(f.name)}
        /\ Cardinality(Range(files_list)) = Len(files_list)
        /\ exclude_patterns.list = <<>> =>
              Range(files_list) =
                  {f \in FilesUnder :
                      f.name \in {"a.csv", "a_auto.csv", ".csv"}}

\* a walk over two directories with an excluded and a kept CSV file and a
\* file outside the walked directory
C19_Witness ==
    /\ pc = "returned"
    /\ path_to_data = "save"
    /\ exclude_patterns.list = <<"(3x3).csv", "_auto.csv", "output.csv">>
    /\ tree = {join("save/a", "a.csv"), join("save/b", "a_auto.csv"),
               join("raw", "a.csv")}
    /\ files_list = <<join("save/a", "a.csv")>>

(***************************************************************************)
(* The converters of raw text files: txt_to_csv_folder of afm_tda_tools    *)
(* and the two matrix_convert_save of src/src and src/code.                *)
(* A raw file is [name, rows]: rows are the lines after the four header    *)
(* lines, each the sequence of its whitespace-separated values.            *)
(***************************************************************************)
ErrEmptyData == "EmptyDataError: No columns to parse from file"

ErrIndex == "IndexError: list index out of range"

ErrInhomogeneous == "ValueError: setting an array element with a sequence."

\* the default of multiply_const
DefaultMultiplyConst == 1000000000

\* the factor 10**9 of matrix_convert_save
LegacyScale == 1000000000

SavePath == "save"

\* txt_file.stem and file.split(os.sep)[-1][:-4]
stem(name) == SubSeq(name, 1, Len(name) - 4)

\* proc / stem and os.path.join(save_path, file_name)
OutDir(name) == SavePath \o "/" \o stem(name)

\* out_dir / f"{stem}.csv"
OutPath(name) == join(OutDir(name), stem(name) \o ".csv")

\* ["Pos = 0", ..., "Pos = k-1"]
PosNames(k) == [i \in 1..k |-> "Pos = " \o ToString(i - 1)]

\* the values scaled, each row behind its index
Scaled(rows, scale) ==
    [i \in 1..Len(rows) |->
        <<i - 1>> \o [j \in 1..Len(rows[i]) |-> rows[i][j] * scale]]

\* one iteration of txt_to_csv_folder; st = [disk, dirs, exc]
TxtToCsvOne(f, multiply_const, st) ==
    IF f.rows = <<>>
    THEN [st EXCEPT !.exc = ErrEmptyData]
    ELSE [disk |-> (OutPath(f.name) :>
                      [columns |-> <<"DataLine">> \o PosNames(Len(f.rows[1])),
                       rows |-> Scaled(f.rows, multiply_const)]) @@ st.disk,
          dirs |-> st.dirs \cup {OutDir(f.name)},
          exc |-> NoException]

RECURSIVE TxtToCsvLoop(_, _, _)
TxtToCsvLoop(files, multiply_const, st) ==
    IF files = <<>> \/ st.exc # NoException THEN st
    ELSE TxtToCsvLoop(Tail(files), multiply_const,
                      TxtToCsvOne(Head(files), multiply_const, st))

\* txt_to_csv_folder(raw_data_path, processed_path, multiply_const)
txt_to_csv_folder(files, multiply_const, st) ==
    TxtToCsvLoop(files, multiply_const,
                 [st EXCEPT !.dirs = st.dirs \cup {SavePath}])

\* one iteration of matrix_convert_save of src/src/convert.py
SrcConvertOne(f, st) ==
    IF f.rows = <<>>
    THEN [st EXCEPT !.exc = ErrIndex]
    ELSE [disk |-> (OutPath(f.name) :>
                      [columns |-> <<"DataLine">> \o PosNames(Len(f.rows[1])),
                       rows |-> Scaled(f.rows, LegacyScale)]) @@ st.disk,
          dirs |-> st.dirs \cup {SavePath, OutDir(f.name)},
          exc |-> NoException]

RECURSIVE SrcConvertLoop(_, _)
SrcConvertLoop(files, st) ==
    IF files = <<>> \/ st.exc # NoException THEN st
    ELSE SrcConvertLoop(Tail(files), SrcConvertOne(Head(files), st))

\* the list given to np.savetxt is a table: all its rows have one length
Rectangular(header, rows) == \A i \in DOMAIN rows : Len(rows[i]) = Len(header)

\* one iteration of matrix_convert_save of src/code/convert.py: the header
\* has one name per data ROW.  A ragged list makes np.savetxt raise or
\* write one list per line, depending on the numpy installed; the written
\* lines are kept as the lists they print.
CodeConvertOne(f, numpy_raises, st) ==
    LET first_line == <<"DataLine">> \o PosNames(Len(f.rows))
        dfs_new == Scaled(f.rows, LegacyScale)
        made == st.dirs \cup {SavePath, OutDir(f.name)}
    IN  IF ~Rectangular(first_line, dfs_new) /\ numpy_raises
        THEN [disk |-> st.disk, dirs |-> made, exc |-> ErrInhomogeneous]
        ELSE [disk |-> (OutPath(f.name) :>
                          [columns |-> first_line, rows |-> dfs_new]) @@ st.disk,
              dirs |-> made,
              exc |-> NoException]

RECURSIVE CodeConvertLoop(_, _, _)
CodeConvertLoop(files, numpy_raises, st) ==
    IF files = <<>> \/ st.exc # NoException THEN st
    ELSE CodeConvertLoop(Tail(files), numpy_raises,
                         CodeConvertOne(Head(files), numpy_raises, st))

\* the raw files: R rows of C values i + j + d, or a and b in the place of
\* i and j
RawGens == [a : {0, 1}, b : {0, 1}, d : {0, 1}]

RawValue(g, i, j) == (g.a * i + g.b * j + g.d) % 3

RawFile(name, R, C, g) ==
    [name |-> name,
     rows |-> [i \in 1..R |-> [j \in 1..C |-> RawValue(g, i - 1, j - 1)]]]

RawFilesOf(name, side, gens) ==
    {RawFile(name, R, C, g) : R \in 0..side, C \in 1..side, g \in gens}

RawFiles(name, side) == RawFilesOf(name, side, RawGens)

Datasets ==
    {<<f>> : f \in RawFiles("s1.txt", MaxRawSide)}
        \cup {<<f, g>> : f \in RawFiles("s1.txt", MaxRawSide),
                         g \in RawFiles("s2.txt", 1)}

InitConvert ==
    /\ disk = <<>>
    /\ MinMaxIdle
    /\ DataIdle
    /\ FilesIdle
    /\ pc = "convert"
    /\ dataset \in Datasets
    /\ dirs \in {{}, {SavePath}, {SavePath, SavePath \o "/s1"}}
    /\ error = NoException
    /\ PipelineIdle
    /\ ExtraIdle

\* the call has ended with the state st
ConvertEnds(st, name) ==
    /\ disk' = st.disk
    /\ dirs' = st.dirs
    /\ error' = st.exc
    /\ pc' = name
    /\ UNCHANGED <<extraVars, minmax_data, minmaxVars, dataVars, filesVars, dataset,
                   pipelineVars>>

TxtToCsvFolder ==
    /\ pc = "convert"
    /\ ConvertEnds(txt_to_csv_folder(dataset, DefaultMultiplyConst,
                                     [disk |-> disk, dirs |-> dirs,
                                      exc |-> NoException]),
                   "afm_tda_tools/data/data_converter.py")

MatrixConvertSave ==
    /\ pc = "convert"
    /\ ConvertEnds(SrcConvertLoop(dataset, [disk |-> disk, dirs |-> dirs,
                                            exc |-> NoException]),
                   "src/convert.py")

MatrixConvertSaveCode ==
    /\ pc = "convert"
    /\ \E numpy_raises \in BOOLEAN :
          ConvertEnds(CodeConvertLoop(dataset, numpy_raises,
                                      [disk |-> disk, dirs |-> dirs,
                                       exc |-> NoException]),
                      "code/convert.py")

NextConvert == TxtToCsvFolder \/ MatrixConvertSave \/ MatrixConvertSaveCode

SpecConvert == InitConvert /\ [][NextConvert]_vars

\* the converter wrote the table the claim describes for raw file f
ConvertedAsClaimed(f) ==
    /\ {SavePath, SavePath \o "/" \o SubSeq(f.name, 1, Len(f.name) - 4)}
          \subseteq dirs
    /\ [dir |-> SavePath \o "/" \o SubSeq(f.name, 1, Len(f.name) - 4),
        name |-> SubSeq(f.name, 1, Len(f.name) - 4) \o ".csv"] \in DOMAIN disk
    /\ LET t == disk[[dir |-> SavePath \o "/" \o SubSeq(f.name, 1, Len(f.name) - 4),
                      name |-> SubSeq(f.name, 1, Len(f.name) - 4) \o ".csv"]]
           R == Len(f.rows)
           C == Len(f.rows[1])
       IN  /\ Len(t.columns) = C + 1
           /\ t.columns[1] = "DataLine"
           /\ \A j \in 1..C : t.columns[j + 1] = "Pos = " \o ToString(j - 1)
           /\ Len(t.rows) = R
           /\ \A i \in 1..R :
                 /\ Len(t.rows[i]) = C + 1
                 /\ t.rows[i][1] = i - 1
                 /\ \A j \in 1..C :
                       t.rows[i][j + 1] = f.rows[i][j] * 1000000000

\* every raw file of the run has at least one data row
AllHaveRows == \A k \in DOMAIN dataset : dataset[k].rows # <<>>

\* C20: for every raw text file with 4 header lines followed by R data rows
\* of C values, the converter writes <save_path>/<stem>/<stem>.csv (creating
\* both directories if missing) whose header is DataLine followed by exactly
\* the C names Pos = 0 .. Pos = C-1 and whose R rows carry the DataLine
\* values 0..R-1 in input order followed by the C scaled values of the row,
\* also when R differs from C.
C20_Conversion ==
    (pc \in {"afm_tda_tools/data/data_converter.py", "src/convert.py",
             "code/convert.py"} /\ AllHaveRows) =>
        /\ error = NoException
        /\ \A k \in DOMAIN dataset : ConvertedAsClaimed(dataset[k])

\* the same statement for the two converters that txt_to_csv_folder and
\* the test of src/convert.py cover
C20_ConversionPackaged ==
    (pc \in {"afm_tda_tools/data/data_converter.py", "src/convert.py"}
     /\ AllHaveRows) =>
        /\ error = NoException
        /\ \A k \in DOMAIN dataset : ConvertedAsClaimed(dataset[k])

(***************************************************************************)
(* main and AnalysisPipeline.run.  The numbers the autocorrelation, the    *)
(* persistence and the distance steps compute are not modelled: their      *)
(* results are tables and values known only by their label.  A call into   *)
(* statsmodels, gudhi, matplotlib or the file system may raise.            *)
(***************************************************************************)
ErrLibrary == "Exception raised in a library call"

ErrSeries == "KeyError: 'Pos = <series_no>'"

ErrConcat == "ValueError: No objects to concatenate"

Finished == "Pipeline finished successfully."

\* a table or a value of which only the kind is known
Opaque(label) == [columns |-> <<label>>, rows |-> <<>>]

\* parser.add_argument("--multiply-const", type=float, default=1e9)
multiply_const_of(a) ==
    IF a.multiply_const.given THEN a.multiply_const.value
    ELSE DefaultMultiplyConst

\* the statements of run, in the order of the text
RunOrder ==
    <<"txt_to_csv_folder", "get_files", "acf", "persistence", "minmax",
      "bottleneck", "save_results", "print", "done">>

After(step) == RunOrder[(CHOOSE k \in DOMAIN RunOrder : RunOrder[k] = step) + 1]

\* variant: the exception of a step is swallowed and run goes on
ContinueAtSwallow(step, exc) == After(step)

\* an exception leaves run, otherwise the next statement is executed
ContinueAt(step, exc) == IF exc # NoException THEN "raised" ELSE After(step)

\* one iteration of AutocorrelationAnalyzer.analyze; st = [disk, data, exc]
AcfOne(fp, fails, st) ==
    LET df == st.disk[fp]
        series_no == Len(df.rows) \div 2
    IN  IF "Pos = " \o ToString(series_no) \notin Range(df.columns)
        THEN [st EXCEPT !.exc = ErrSeries]
        ELSE IF fails
        THEN [st EXCEPT !.exc = ErrLibrary]
        ELSE [disk |-> (join(dirname(fp), "autocorr.csv") :> Opaque("acf"))
                          @@ st.disk,
              data |-> add_acf_data(st.data, fp, Opaque("acf")),
              exc |-> NoException]

RECURSIVE AcfLoop(_, _, _, _)
AcfLoop(files, k, fail_at, st) ==
    IF k > Len(files) \/ st.exc # NoException THEN st
    ELSE AcfLoop(files, k + 1, fail_at, AcfOne(files[k], k = fail_at, st))

\* one iteration of PersistenceAnalyzer.analyze: _process_persistence
PersistenceOne(fp, fails, st) ==
    IF fails
    THEN [st EXCEPT !.exc = ErrLibrary]
    ELSE [disk |-> (join(dirname(fp), "diag_df_output.csv") :> Opaque("diag"))
                      @@ st.disk,
          data |-> add_persistence_diagram(st.data, fp, Opaque("diag")),
          exc |-> NoException]

RECURSIVE PersistenceLoop(_, _, _, _)
PersistenceLoop(files, k, fail_at, st) ==
    IF k > Len(files) \/ st.exc # NoException THEN st
    ELSE PersistenceLoop(files, k + 1, fail_at,
                         PersistenceOne(files[k], k = fail_at, st))

\* variant: the autocorrelation table is excluded too
DefaultExcludeMore == <<"(3x3).csv", "_auto.csv", "output.csv", "corr.csv">>

DefaultExclude == <<"(3x3).csv", "_auto.csv", "output.csv">>

CommandLines ==
    [multiply_const : {[given |-> FALSE, value |-> 0],
                       [given |-> TRUE, value |-> 1],
                       [given |-> TRUE, value |-> 2]},
     matrix_size : 1..MaxN,
     exclude : {DefaultExclude, <<"s2.csv">>, <<".csv">>}]

PipelineGens == [a : {1}, b : {0, 1}, d : {0}]

PipelineDatasets ==
    {<<f>> : f \in RawFilesOf("s1.txt", MaxRawSide, PipelineGens)}
        \cup {<<f, g>> : f \in RawFilesOf("s1.txt", MaxRawSide, PipelineGens),
                         g \in RawFilesOf("s2.txt", 1, PipelineGens)}

InitPipeline ==
    /\ disk = <<>>
    /\ MinMaxIdle
    /\ DataIdle
    /\ FilesIdle
    /\ pc = "main"
    /\ dataset \in PipelineDatasets
    /\ dirs \in {{}, {SavePath}}
    /\ error = NoException
    /\ args \in CommandLines
    /\ trace = <<>>
    /\ stdout = <<>>
    /\ bottleneck_results = <<>>
    /\ ExtraIdle

\* main: AnalysisPipeline(data_path, save_path, exclude_patterns, width_line,
\* max_edge_length, matrix_size, delta, order), then pipeline.run()
Main ==
    /\ pc = "main"
    /\ matrix_size' = args.matrix_size
    /\ exclude_patterns' = [none |-> FALSE, list |-> args.exclude]
    /\ path_to_data' = SavePath
    /\ pc' = "txt_to_csv_folder"
    /\ UNCHANGED <<extraVars, disk, minmax_data, datasets, idx, exception, returned,
                   file_path, rows_to_drop, mat, mat_list, sub_mat_df, points,
                   agg_points, history, dataVars, tree, files_list,
                   convertVars, pipelineVars>>

\* txt_to_csv_folder(self.data_path, self.save_path)
StepConvert ==
    /\ pc = "txt_to_csv_folder"
    /\ LET st == txt_to_csv_folder(dataset, DefaultMultiplyConst,
                                   [disk |-> disk, dirs |-> dirs,
                                    exc |-> NoException])
       IN  /\ disk' = st.disk
           /\ dirs' = st.dirs
           /\ error' = st.exc
           /\ pc' = ContinueAt(pc, st.exc)
    /\ trace' = Append(trace, pc)
    /\ UNCHANGED <<extraVars, minmax_data, minmaxVars, dataVars, filesVars, dataset, args,
                   stdout, bottleneck_results>>

\* files = self.acf_analyzer.get_files(self.save_path, exclude_patterns=...)
StepGetFiles ==
    /\ pc = "get_files"
    /\ \E w \in Walks(DOMAIN disk, path_to_data) :
          files_list' = get_files(w, exclude_patterns)
    /\ tree' = DOMAIN disk
    /\ pc' = ContinueAt(pc, NoException)
    /\ trace' = Append(trace, pc)
    /\ UNCHANGED <<extraVars, disk, minmax_data, minmaxVars, dataVars, path_to_data,
                   exclude_patterns, convertVars, args, stdout,
                   bottleneck_results>>

\* self.acf_analyzer.analyze(files, width_line=self.width_line)
StepAcf ==
    /\ pc = "acf"
    /\ \E fail_at \in 0..Len(files_list) :
          LET st == AcfLoop(files_list, 1, fail_at,
                            [disk |-> disk, data |-> acf_data,
                             exc |-> NoException])
          IN  /\ disk' = st.disk
              /\ acf_data' = st.data
              /\ error' = st.exc
              /\ pc' = ContinueAt(pc, st.exc)
    /\ trace' = Append(trace, pc)
    /\ UNCHANGED <<extraVars, minmax_data, minmaxVars, persistence_diagrams, calls,
                   filesVars, dataset, dirs, args, stdout, bottleneck_results>>

\* self.persistence_analyzer.analyze(files, max_edge_length=...)
StepPersistence ==
    /\ pc = "persistence"
    /\ \E fail_at \in 0..Len(files_list) :
          LET st == PersistenceLoop(files_list, 1, fail_at,
                                    [disk |-> disk,
                                     data |-> persistence_diagrams,
                                     exc |-> NoException])
          IN  /\ disk' = st.disk
              /\ persistence_diagrams' = st.data
              /\ error' = st.exc
              /\ pc' = ContinueAt(pc, st.exc)
    /\ trace' = Append(trace, pc)
    /\ UNCHANGED <<extraVars, minmax_data, minmaxVars, acf_data, calls, filesVars,
                   dataset, dirs, args, stdout, bottleneck_results>>

\* self.minmax_analyzer.analyze(files, matrix_size=self.matrix_size): the
\* call binds the list; its loop is ProcessMinmax and AnalyzeReturn
StepMinmax ==
    /\ pc = "minmax"
    /\ datasets' = files_list
    /\ pc' = "minmax: analyze"
    /\ trace' = Append(trace, pc)
    /\ UNCHANGED <<extraVars, disk, minmax_data, matrix_size, idx, exception, returned,
                   file_path, rows_to_drop, mat, mat_list, sub_mat_df, points,
                   agg_points, history, dataVars, filesVars, convertVars, args,
                   stdout, bottleneck_results>>

\* variant: the diagram is always computed on the fly
DiagramOfAlways(path, supplied, stored) ==
    [diag |-> Opaque("calc_only"), calc_only |-> TRUE]

\* if persistence_analyzer and path in persistence_analyzer.data
\* .persistence_diagrams: the stored diagram, else _calc_only_persistence
DiagramOf(path, supplied, stored) ==
    IF supplied /\ path \in DOMAIN stored
    THEN [diag |-> stored[path], calc_only |-> FALSE]
    ELSE [diag |-> Opaque("calc_only"), calc_only |-> TRUE]

\* for path in track(datasets, ...): acc = [diags, calc_only], calc_only
\* the paths given to _calc_only_persistence so far
RECURSIVE DiagramsLoop(_, _, _, _, _)
DiagramsLoop(list, k, supplied, stored, acc) ==
    IF k > Len(list) THEN acc
    ELSE LET d == DiagramOf(list[k], supplied, stored)
         IN  DiagramsLoop(list, k + 1, supplied, stored,
                          [diags |-> Append(acc.diags, d.diag),
                           calc_only |-> IF d.calc_only
                                         THEN Append(acc.calc_only, list[k])
                                         ELSE acc.calc_only])

\* BottleneckAnalyzer.analyze(datasets, persistence_analyzer, delta, order):
\* the diagrams are collected, then one result row per file is appended,
\* named os.path.splitext(os.path.basename(path))[0]
BottleneckAnalyze(list, supplied) ==
    /\ LET acc == DiagramsLoop(list, 1, supplied, persistence_diagrams,
                               [diags |-> <<>>, calc_only |-> <<>>])
       IN  /\ diags' = acc.diags
           /\ calc_only' = acc.calc_only
    /\ persistence_analyzer' = supplied
    /\ \E fails \in BOOLEAN :
          /\ error' = IF fails THEN ErrLibrary ELSE NoException
          /\ bottleneck_results' =
                IF fails THEN bottleneck_results
                ELSE [k \in 1..Len(list) |-> stem(list[k].name)]
    /\ UNCHANGED <<legacy, run_no, disk, minmax_data, minmaxVars, dataVars,
                   filesVars, dataset, dirs, args, stdout>>

\* self.bottleneck_analyzer.analyze(files,
\*     persistence_analyzer=self.persistence_analyzer, ...)
StepBottleneck ==
    /\ pc = "minmax: analyze"
    /\ returned
    /\ BottleneckAnalyze(files_list, TRUE)
    /\ pc' = ContinueAt("bottleneck", error')
    /\ trace' = Append(trace, "bottleneck")

\* self.bottleneck_analyzer.save_results(save_dir)
StepSaveResults ==
    /\ pc = "save_results"
    /\ dirs' = dirs \cup {SavePath}
    /\ error' = IF bottleneck_results = <<>> THEN ErrConcat ELSE NoException
    /\ disk' = IF bottleneck_results = <<>> THEN disk
               ELSE (join(SavePath, "results_bottleneck.csv")
                        :> Opaque("bottleneck"))
                    @@ (join(SavePath, "results_wasserstein.csv")
                        :> Opaque("wasserstein"))
                    @@ disk
    /\ pc' = ContinueAt(pc, error')
    /\ trace' = Append(trace, pc)
    /\ UNCHANGED <<extraVars, minmax_data, minmaxVars, dataVars, filesVars, dataset, args,
                   stdout, bottleneck_results>>

\* print("Pipeline finished successfully.")
StepPrint ==
    /\ pc = "print"
    /\ stdout' = Append(stdout, Finished)
    /\ pc' = ContinueAt(pc, NoException)
    /\ trace' = Append(trace, pc)
    /\ UNCHANGED <<extraVars, disk, minmax_data, minmaxVars, dataVars, filesVars,
                   convertVars, args, bottleneck_results>>

NextPipeline ==
    \/ Main
    \/ StepConvert
    \/ StepGetFiles
    \/ StepAcf
    \/ StepPersistence
    \/ StepMinmax
    \/ (pc = "minmax: analyze" /\ ProcessMinmax)
    \/ (pc = "minmax: analyze" /\ AnalyzeReturn)
    \/ StepBottleneck
    \/ StepSaveResults
    \/ StepPrint

SpecPipeline == InitPipeline /\ [][NextPipeline]_vars

\* the steps of run started so far are the first ones of the fixed order
StartedInOrder ==
    /\ Len(trace) <= 8
    /\ \A k \in DOMAIN trace :
          trace[k] = <<"txt_to_csv_folder", "get_files", "acf", "persistence",
                       "minmax", "bottleneck", "save_results", "print">>[k]

Started(step) == step \in Range(trace)

\* when a step has started, the step before it has finished for all files
PreviousFinished ==
    /\ Started("get_files") =>
          \A k \in DOMAIN dataset :
              [dir |-> "save/" \o stem(dataset[k].name),
               name |-> stem(dataset[k].name) \o ".csv"] \in DOMAIN disk
    /\ Started("persistence") =>
          \A k \in DOMAIN files_list :
              /\ files_list[k] \in DOMAIN acf_data
              /\ join(files_list[k].dir, "autocorr.csv") \in DOMAIN disk
    /\ Started("minmax") =>
          \A k \in DOMAIN files_list :
              /\ files_list[k] \in DOMAIN persistence_diagrams
              /\ join(files_list[k].dir, "diag_df_output.csv") \in DOMAIN disk
    /\ Started("bottleneck") =>
          /\ returned
          /\ \A k \in DOMAIN files_list :
                /\ files_list[k] \in DOMAIN minmax_data
                /\ AggPath(files_list[k], matrix_size) \in DOMAIN disk
                /\ FlatPath(files_list[k], matrix_size) \in DOMAIN disk
    /\ Started("save_results") => Len(bottleneck_results) = Len(files_list)
    /\ Started("print") =>
          {join("save", "results_bottleneck.csv"),
           join("save", "results_wasserstein.csv")} \subseteq DOMAIN disk

\* an exception has left a step of run
Raised == error # NoException \/ exception # NoException

\* C17: run executes its steps in the fixed order conversion, file
\* collection, autocorrelation, persistence, min-max, distances, saving of
\* the distances; no step starts before the previous one has finished for
\* all files; an exception in a step prevents every later step; and the
\* message "Pipeline finished successfully." is emitted only after the
\* distance results have been saved.
C17_StepOrder ==
    /\ [](/\ StartedInOrder
          /\ PreviousFinished
          /\ Raised => stdout = <<>>
          /\ stdout # <<>> =>
                /\ stdout = <<"Pipeline finished successfully.">>
                /\ Len(trace) = 8
                /\ {join("save", "results_bottleneck.csv"),
                    join("save", "results_wasserstein.csv")}
                      \subseteq DOMAIN disk)
    /\ [][~Raised /\ Len(trace') <= Len(trace) + 1]_vars

\* a run over two files has printed the message
C17_Witness ==
    /\ pc = "done"
    /\ stdout = <<Finished>>
    /\ Len(files_list) = 2
    /\ Len(history) = 2
    /\ Len(bottleneck_results) = 2

\* an exception in the persistence step has ended the run after the
\* autocorrelation of both files
C17_WitnessRaised ==
    /\ pc = "raised"
    /\ trace = <<"txt_to_csv_folder", "get_files", "acf", "persistence">>
    /\ Len(files_list) = 2
    /\ files_list[1] \in DOMAIN persistence_diagrams
    /\ files_list[2] \notin DOMAIN persistence_diagrams

\* the conversion step of the run has written its tables
Converted == Started("txt_to_csv_folder") /\ error # ErrEmptyData

\* C18: the value given to --multiply-const is the factor by which the raw
\* values are multiplied during the conversion of the run started by main;
\* the default 1e9 is used only when the option is absent.
C18_MultiplyConst ==
    Converted =>
        \A k \in DOMAIN dataset :
            LET t == disk[[dir |-> "save/" \o stem(dataset[k].name),
                           name |-> stem(dataset[k].name) \o ".csv"]]
            IN  \A i \in DOMAIN t.rows : \A j \in 2..Len(t.rows[i]) :
                    t.rows[i][j] =
                        dataset[k].rows[i][j - 1]
                          * (IF args.multiply_const.given
                             THEN args.multiply_const.value
                             ELSE 1000000000)

\* the same with the option absent
C18_DefaultOnly ==
    (Converted /\ ~args.multiply_const.given) =>
        \A k \in DOMAIN dataset :
            LET t == disk[[dir |-> "save/" \o stem(dataset[k].name),
                           name |-> stem(dataset[k].name) \o ".csv"]]
            IN  \A i \in DOMAIN t.rows : \A j \in 2..Len(t.rows[i]) :
                    t.rows[i][j] = dataset[k].rows[i][j - 1] * 1000000000

(***************************************************************************)
(* The partition loops of _process_minmax on their own: every square grid  *)
(* of side 0..MaxSide, also those the dimension checks would reject.       *)
(***************************************************************************)
InitSplit ==
    /\ disk = <<>>
    /\ datasets = <<>>
    /\ matrix_size \in 1..MaxN
    /\ idx = 1
    /\ exception = NoException
    /\ returned = FALSE
    /\ minmax_data = <<>>
    /\ file_path = NoPath
    /\ rows_to_drop = 0
    /\ \E N \in 0..MaxSide, g \in Gens :
          mat = to_numpy(read_csv(Csv(N, N, g), "DataLine"))
    /\ mat_list = <<>>
    /\ sub_mat_df = EmptyFrame
    /\ points = EmptyFrame
    /\ agg_points = EmptyFrame
    /\ history = <<>>
    /\ DataIdle
    /\ pc = "partition"
    /\ FilesIdle
    /\ ConvertIdle
    /\ PipelineIdle
    /\ ExtraIdle

\* lines 129-141: the two nested while loops
PartitionLoops ==
    /\ pc = "partition"
    /\ mat_list' = Split(mat, matrix_size)
    /\ pc' = "partitioned"
    /\ UNCHANGED <<disk, minmax_data, datasets, matrix_size, idx, exception,
                   returned, file_path, rows_to_drop, mat, sub_mat_df, points,
                   agg_points, history, dataVars, filesVars, convertVars,
                   pipelineVars, extraVars>>

SpecSplit == InitSplit /\ [][PartitionLoops]_vars

\* C24: for every grid side N >= 0 and block size n >= 1 the two nested
\* partition loops terminate, having appended exactly floor(N/n)^2 blocks,
\* and the slice bounds i2 and j2 never exceed N when a block is taken.
C24_LoopsTerminate ==
    pc = "partitioned" =>
        LET N == mat.shape[1]
            q == mat.shape[1] \div matrix_size
        IN  /\ Len(mat_list) = q * q
            /\ \A k \in DOMAIN mat_list :
                  /\ (((k - 1) \div q) + 1) * matrix_size <= N
                  /\ (((k - 1) % q) + 1) * matrix_size <= N
                  /\ mat_list[k].shape = <<matrix_size, matrix_size>>
                  /\ mat_list[k].rows[matrix_size][matrix_size] =
                        mat.rows[(((k - 1) \div q) + 1) * matrix_size]
                                [(((k - 1) % q) + 1) * matrix_size]

\* the loops have run on a grid whose side is not a multiple of n
C24_Witness ==
    /\ pc = "partitioned"
    /\ mat.shape = <<MaxSide, MaxSide>>
    /\ matrix_size = MaxN
    /\ MaxSide % MaxN # 0
    /\ Len(mat_list) = (MaxSide \div MaxN) * (MaxSide \div MaxN)

\* C25: an input with fewer rows than n (0 < R < n) and at most R data
\* columns is trimmed to a 0 x 0 matrix, which passes the squareness and the
\* divisibility check without a dimension error, and the partition step
\* yields zero blocks: passing the checks does not guarantee a block.
C25_EmptyMatrixPasses ==
    (Called /\ InputRows > 0 /\ InputRows < matrix_size
            /\ InputCols <= InputRows) =>
        /\ rows_to_drop = InputRows
        /\ mat.shape = <<0, 0>>
        /\ exception \notin {ErrNegative, ErrMain, ErrSmaller}
        /\ mat_list = <<>>
        /\ sub_mat_df.rows = <<>>

\* two rows of one data column with n = 3
C25_Witness ==
    /\ Called
    /\ InputRows = 2
    /\ InputCols = 1
    /\ matrix_size = 3
    /\ mat.shape = <<0, 0>>
    /\ mat_list = <<>>

\* C26: the row count of the trimmed matrix is always a multiple of n, so
\* whenever the squareness check passes the divisibility check passes too:
\* "Check the dimension of smaller square matrix." is never raised.
C26_NeverSmaller ==
    Called =>
        /\ mat.shape[1] % matrix_size = 0
        /\ exception # ErrSmaller
        /\ \A a \in DOMAIN history : history[a].exception # ErrSmaller

\* a trimmed input passed both checks
C26_Witness ==
    /\ Succeeded
    /\ rows_to_drop > 0
    /\ InputRows > matrix_size
    /\ mat.shape[1] = InputRows - rows_to_drop
    /\ Len(mat_list) >= 1

\* the latest successful call for a file of the directory d
LastCallIn(d) ==
    CHOOSE b \in 1..(idx - 1) :
        /\ datasets[b].dir = d
        /\ \A c \in 1..(idx - 1) : datasets[c].dir = d => c <= b

RECURSIVE ListCsvLoop(_, _, _, _)
ListCsvLoop(w, k, j, acc) ==
    IF k > Len(w) THEN acc
    ELSE IF j > Len(w[k].files) THEN ListCsvLoop(w, k + 1, 1, acc)
    ELSE ListCsvLoop(w, k, j + 1,
                     IF endswith(w[k].files[j], "csv")
                     THEN Append(acc, join(w[k].root, w[k].files[j]))
                     ELSE acc)

list_csv_files(w) == ListCsvLoop(w, 1, 1, <<>>)

FolderNames == {"a.csv", "b.txt", "datacsv", "csv"}

InitList ==
    /\ disk = <<>>
    /\ MinMaxIdle
    /\ DataIdle
    /\ pc = "list_csv_files"
    /\ tree \in {t \in SUBSET {join(d, name) : d \in WalkDirs,
                                               name \in FolderNames} :
                    Cardinality(t) <= MaxFiles}
    /\ path_to_data \in {"save", "save/a"}
    /\ exclude_patterns = [none |-> TRUE, list |-> <<>>]
    /\ files_list = <<>>
    /\ ConvertIdle
    /\ PipelineIdle
    /\ ExtraIdle

ListCsvFiles ==
    /\ pc = "list_csv_files"
    /\ \E w \in Walks(tree, path_to_data) : files_list' = list_csv_files(w)
    /\ pc' = "listed"
    /\ UNCHANGED <<disk, minmax_data, minmaxVars, dataVars, tree, path_to_data,
                   exclude_patterns, convertVars, pipelineVars, extraVars>>

SpecList == InitList /\ [][ListCsvFiles]_vars

\* C21: list_csv_files(folder) returns the full paths of exactly those
\* files under folder (recursively) that end with the ".csv" extension:
\* every such file is returned and no file with another extension or name.
C21_ListCsvFiles ==
    pc = "listed" =>
        /\ Range(files_list) =
              {f \in FilesUnder :
                  /\ Len(f.name) >= 4
                  /\ SubSeq(f.name, Len(f.name) - 3, Len(f.name)) = ".csv"}
        /\ Cardinality(Range(files_list)) = Len(files_list)

\* what the code returns: the files whose name ends with the letters csv
C21_EndsWithCsvLetters ==
    pc = "listed" =>
        /\ Range(files_list) =
              {f \in FilesUnder :
                  /\ Len(f.name) >= 3
                  /\ SubSeq(f.name, Len(f.name) - 2, Len(f.name)) = "csv"}
        /\ Cardinality(Range(files_list)) = Len(files_list)

(***************************************************************************)
(* The legacy minmax_db of src/src/AFM_analize_folder.py (n = 3)           *)
(***************************************************************************)
\* variant: the transposition .T is left out
LegacyPointsNoT(ml) ==
    rename([columns |-> [k \in DOMAIN ml |-> ToString(k)],
            rows |-> IF ml = <<>> THEN <<>>
                     ELSE [c \in 1..4 |->
                             [k \in DOMAIN ml |-> return_min_max_ix(ml[k])[c]]]],
           ("0" :> "min_r") @@ ("1" :> "min_c") @@ ("2" :> "max_r") @@ ("3" :> "max_c"))

\* pd.DataFrame.from_dict(min_max_ix_dict).T.rename(columns={0: "min_r", ...}):
\* from_dict makes one column per block and four rows labelled 0..3 (no
\* row and no column for the empty dictionary); .T swaps the two axes
LegacyPoints(ml) ==
    LET from_dict ==
            [columns |-> [k \in DOMAIN ml |-> ToString(k)],
             index |-> IF ml = <<>> THEN <<>> ELSE <<"0", "1", "2", "3">>,
             rows |-> IF ml = <<>> THEN <<>>
                      ELSE [c \in 1..4 |->
                              [k \in DOMAIN ml |-> return_min_max_ix(ml[k])[c]]]]
        T == [columns |-> from_dict.index,
              rows |-> [k \in DOMAIN from_dict.columns |->
                          [c \in DOMAIN from_dict.index |-> from_dict.rows[c][k]]]]
    IN  rename(T, ("0" :> "min_r") @@ ("1" :> "min_c") @@ ("2" :> "max_r")
                    @@ ("3" :> "max_c"))

\* f"{a[:-4]}_min_max_ix({n}x{n}).csv" and f"{a[:-4]}_flattened_submat(...)"
LegacyPath(a, table) ==
    join(a.dir, SubSeq(a.name, 1, Len(a.name) - 4) \o "_" \o table
                    \o "(3x3).csv")

\* the body of the for loop of minmax_db for the file a; st = [disk, exc]
MinmaxDbOne(a, st) ==
    LET data == read_csv(st.disk[a], "DataLine")
        n == 3
        rows_to_drop_ == Shape(data)[1] - (Shape(data)[1] \div n) * n
        mat_ == IF rows_to_drop_ = 0 THEN to_numpy(data)
                ELSE to_numpy(iloc(data, 0 - rows_to_drop_, 0 - rows_to_drop_))
        mat_list_ == OuterLoop(mat_, n, 0, n, <<>>)
        sub_mat_df_ == [columns |-> BlockColumns(n),
                        rows |-> [k \in DOMAIN mat_list_ |-> flatten(mat_list_[k])]]
        points_ == LegacyPoints(mat_list_)
    IN  IF rows_to_drop_ < 0 THEN [st EXCEPT !.exc = ErrNegative]
        ELSE IF mat_.shape[1] # mat_.shape[2] THEN [st EXCEPT !.exc = ErrMain]
        ELSE IF mat_.shape[1] % n # 0 THEN [st EXCEPT !.exc = ErrSmaller]
        ELSE IF "min_r" \notin Range(points_.columns)
        THEN [st EXCEPT !.exc = ErrKey]
        ELSE [disk |-> to_csv(to_csv(st.disk, LegacyPath(a, "min_max_ix"),
                                     concat(MinDf(points_), MaxDf(points_))),
                              LegacyPath(a, "flattened_submat"), sub_mat_df_),
              exc |-> NoException]

\* for a in track(datasets, ...)
RECURSIVE MinmaxDbLoop(_, _)
MinmaxDbLoop(list, st) ==
    IF list = <<>> \/ st.exc # NoException THEN st
    ELSE MinmaxDbLoop(Tail(list), MinmaxDbOne(Head(list), st))

\* minmax_db(datasets)
MinmaxDb ==
    /\ legacy = "not called"
    /\ LET st == MinmaxDbLoop(datasets, [disk |-> disk, exc |-> NoException])
       IN  /\ disk' = st.disk
           /\ legacy' = st.exc
    /\ UNCHANGED <<minmax_data, minmaxVars, dataVars, pc, filesVars,
                   convertVars, pipelineVars, diags, calc_only,
                   persistence_analyzer, run_no>>

\* the same files given to both implementations, the new one with n = 3
InitLegacy == Init /\ matrix_size = 3

NextLegacy == ProcessMinmax \/ AnalyzeReturn \/ MinmaxDb

SpecLegacy == InitLegacy /\ [][NextLegacy]_vars

\* both implementations have ended
BothEnded == legacy # "not called" /\ (returned \/ exception # NoException)

\* C23: for every input table the legacy minmax_db and _process_minmax
\* called with n = 3 agree: either both raise an error, or both produce the
\* same aggregated-count table and the same flattened-block table (same
\* rows in the same order); only the paths they write to differ.
C23_LegacyAgrees ==
    BothEnded =>
        /\ legacy = exception
        /\ \A a \in DOMAIN history :
              IF history[a].exception = NoException
              THEN /\ LegacyPath(datasets[a], "min_max_ix") \in DOMAIN disk
                   /\ LegacyPath(datasets[a], "flattened_submat") \in DOMAIN disk
                   /\ disk[LegacyPath(datasets[a], "min_max_ix")]
                        = history[a].agg
                   /\ disk[LegacyPath(datasets[a], "flattened_submat")]
                        = history[a].flat
                   /\ LegacyPath(datasets[a], "min_max_ix")
                        # AggPath(datasets[a], 3)
              ELSE legacy # NoException

\* both have written the tables of a 6 x 6 input with differing blocks
C23_Witness ==
    /\ BothEnded
    /\ legacy = NoException
    /\ InputRows >= 6
    /\ Len(history[1].flat.rows) = 4
    /\ Len(history[1].agg.rows) >= 3
    /\ disk[LegacyPath(datasets[1], "min_max_ix")] = history[1].agg

\* both have raised the same dimension error
C23_WitnessError ==
    /\ BothEnded
    /\ legacy = ErrMain
    /\ exception = ErrMain

(***************************************************************************)
(* BottleneckAnalyzer.analyze called outside the pipeline: any list of     *)
(* files, with or without a persistence analyzer, which holds diagrams of  *)
(* any of the files.                                                       *)
(***************************************************************************)
StandaloneFiles ==
    {join("save/a", "a.csv"), join("save/b", "b.csv"), join("save", "c.csv")}

RECURSIVE ListsOf(_, _)
ListsOf(S, n) ==
    IF n = 0 THEN {<<>>}
    ELSE ListsOf(S, n - 1)
            \cup {Append(l, f) : l \in ListsOf(S, n - 1), f \in S}

InitStandalone ==
    /\ disk = [f \in StandaloneFiles |-> Opaque("distance matrix")]
    /\ minmax_data = <<>>
    /\ MinMaxIdle
    /\ acf_data = <<>>
    /\ calls = <<>>
    /\ persistence_diagrams
          \in {[f \in S |-> Opaque("diag")] : S \in SUBSET StandaloneFiles}
    /\ tree = {}
    /\ path_to_data = ""
    /\ exclude_patterns = [none |-> TRUE, list |-> <<>>]
    /\ files_list \in ListsOf(StandaloneFiles, MaxFiles)
    /\ ConvertIdle
    /\ PipelineIdle
    /\ legacy = "not called"
    /\ diags = <<>>
    /\ calc_only = <<>>
    /\ persistence_analyzer \in BOOLEAN
    /\ run_no = 1
    /\ pc = "bottleneck: standalone"

\* analyzer.analyze(datasets) or analyzer.analyze(datasets, persistence_analyzer)
StandaloneAnalyze ==
    /\ pc = "bottleneck: standalone"
    /\ BottleneckAnalyze(files_list, persistence_analyzer)
    /\ pc' = IF error' # NoException THEN "raised" ELSE "bottleneck: analyzed"
    /\ UNCHANGED trace

InitBottleneck == InitPipeline \/ InitStandalone

NextBottleneck == NextPipeline \/ StandaloneAnalyze

SpecBottleneck == InitBottleneck /\ [][NextBottleneck]_vars

\* analyze has collected the diagrams of files_list
DiagramsCollected ==
    \/ pc = "bottleneck: analyzed"
    \/ "bottleneck" \in Range(trace)
    \/ (pc = "raised" /\ diags # <<>>)

\* C22: for each dataset path analyze uses the diagram the supplied
\* persistence analyzer holds for that path when there is one, and computes
\* a diagram on the fly only when no analyzer is supplied or it holds none
\* for that path; inside AnalysisPipeline.run the on-the-fly computation is
\* never performed.
C22_StoredDiagramReused ==
    DiagramsCollected =>
        /\ Len(diags) = Len(files_list)
        /\ \A k \in DOMAIN files_list :
              IF persistence_analyzer
                    /\ files_list[k] \in DOMAIN persistence_diagrams
              THEN /\ diags[k] = persistence_diagrams[files_list[k]]
                   /\ files_list[k] \notin Range(calc_only)
              ELSE /\ diags[k] = Opaque("calc_only")
                   /\ files_list[k] \in Range(calc_only)
        /\ "bottleneck" \in Range(trace) => calc_only = <<>>

\* a standalone call that reused one diagram and computed another
C22_Witness ==
    /\ pc = "bottleneck: analyzed"
    /\ persistence_analyzer
    /\ Len(calc_only) = 1
    /\ Len(diags) = 2
    /\ diags[1] # diags[2]

\* the pipeline collected the diagrams of two files, none on the fly
C22_WitnessRun ==
    /\ "bottleneck" \in Range(trace)
    /\ Len(diags) = 2
    /\ calc_only = <<>>

(***************************************************************************)
(* A second run over the same save directory: main is started again with   *)
(* the same command line once the first run has finished.                  *)
(***************************************************************************)
InitRerun ==
    /\ InitPipeline
    /\ Len(dataset) = 1
    /\ ~args.multiply_const.given
    /\ args.exclude = DefaultExclude

\* AnalysisPipeline(...) anew: a new AnalysisData and new analyzers, then
\* pipeline.run() from its first statement
Rerun ==
    /\ pc = "done"
    /\ run_no = 1
    /\ run_no' = 2
    /\ pc' = "txt_to_csv_folder"
    /\ trace' = <<>>
    /\ persistence_diagrams' = <<>>
    /\ acf_data' = <<>>
    /\ minmax_data' = <<>>
    /\ bottleneck_results' = <<>>
    /\ diags' = <<>>
    /\ calc_only' = <<>>
    /\ persistence_analyzer' = FALSE
    /\ files_list' = <<>>
    /\ tree' = {}
    /\ datasets' = <<>>
    /\ idx' = 1
    /\ exception' = NoException
    /\ returned' = FALSE
    /\ file_path' = NoPath
    /\ rows_to_drop' = 0
    /\ mat' = EmptyArray
    /\ mat_list' = <<>>
    /\ sub_mat_df' = EmptyFrame
    /\ points' = EmptyFrame
    /\ agg_points' = EmptyFrame
    /\ history' = <<>>
    /\ UNCHANGED <<disk, matrix_size, calls, path_to_data, exclude_patterns,
                   convertVars, args, stdout, legacy>>

NextRerun == NextPipeline \/ Rerun

SpecRerun == InitRerun /\ [][NextRerun]_vars

\* the CSV files txt_to_csv_folder writes for the input files
ConvertedCsvs == {OutPath(dataset[k].name) : k \in DOMAIN dataset}

\* the outputs of a finished run the default patterns do not exclude
KeptOutputs ==
    {join(dirname(f), "autocorr.csv") : f \in ConvertedCsvs}
        \cup {join(SavePath, "results_bottleneck.csv"),
              join(SavePath, "results_wasserstein.csv")}
        \cup (IF matrix_size # 3
              THEN {AggPath(f, matrix_size) : f \in ConvertedCsvs}
                      \cup {FlatPath(f, matrix_size) : f \in ConvertedCsvs}
              ELSE {})

C28_WitnessFirst ==
    /\ run_no = 1
    /\ pc = "done"
    /\ KeptOutputs \subseteq DOMAIN disk
    /\ Range(files_list) = ConvertedCsvs

====
